---- MODULE Spec2Model ----
(***************************************************************************)
(* Provider dispatch core and configuration store of code-translator       *)
(* (src/src/providers/provider_framework.py, implementations.py,           *)
(* src/src/config/config_manager.py): circuit breaker, token-bucket rate   *)
(* limiter, fallback chain, priority queue, configuration manager; and of  *)
(* the translation engine (src/src/translator/translator_engine.py), the   *)
(* provider registry, the load balancer, the error handler                 *)
(* (src/src/error_handling/error_framework.py) and the application         *)
(* manager (src/src/lifecycle/app_manager.py).                             *)
(*                                                                         *)
(* These specifications share the module:                                  *)
(*   Spec         one CircuitBreaker used directly by concurrent callers   *)
(*   ProviderSpec one provider instance dispatched to repeatedly through   *)
(*                a chain of one, from its construction on                 *)
(*   ChainSpec    a ProviderChain over three provider instances, each      *)
(*                fresh or with its breaker already tripped                *)
(*   RLSpec       one RateLimiter used by concurrent callers               *)
(*   PQSpec       one PriorityQueue used by concurrent threads             *)
(*   CfgSpec      one configuration directory: a ConfigurationManager      *)
(*                opened and closed over it, one transaction at a time,    *)
(*                a concurrent reader, and damage to the live file         *)
(*   ExportSpec   two configuration stores that differ in their        *)
(*                sensitive fields only, and their exports                 *)
(*   TranslateSpec one TranslatorEngine with a full translation cache and  *)
(*                concurrent translate_async calls                         *)
(*   LBSpec       one LoadBalancer used by concurrent threads              *)
(*   RegistrySpec one ProviderRegistry: creations, monitors and shutdown   *)
(*   DetectSpec   detect_language over texts of a few lines                *)
(*   ErrorSpec    one ErrorHandler handling errors one after another       *)
(*   LifecycleSpec one ApplicationManager: cleanups and plugins            *)
(*                registered, shutdown calls that overlap at their awaits  *)
(*   ReorderSpec  ChainSpec with reorder_by_performance called while an    *)
(*                execute is suspended in a provider                       *)
(*   LiveSpec     Spec for a breaker built with a CircuitBreakerConfig of  *)
(*                small thresholds, the wrapped function failing only      *)
(*                before the clock's first step, under fair scheduling     *)
(* Each specification leaves the variables of the others unchanged.        *)
(* In ProviderSpec and ChainSpec one execute runs at a time; the providers *)
(* have no rate limiter (their configurations carry no "rate_limit") and   *)
(* the latency and error-kind fields of the metrics are left out.          *)
(* In CfgSpec the backups of a directory are taken in distinct seconds,    *)
(* so that each has a file name of its own.                                *)
(***************************************************************************)
EXTENDS Integers, Sequences, FiniteSets, Bags, TLC

(***************************************************************************)
(* Program constants: CircuitBreakerConfig defaults.                       *)
(***************************************************************************)
failure_threshold == 5
recovery_timeout == 60
success_threshold == 2
half_open_max_requests == 3
\* last_failure_time before any failure (Python None)
None == -1

(***************************************************************************)
(* Bounds of the model.                                                    *)
(***************************************************************************)
\* concurrent callers of the directly used breaker
NumCallers == 3
\* the clock advances in steps of TickSeconds up to MaxTime (seconds)
TickSeconds == 35
MaxTime == 75
\* the call/invocation history counters saturate here
MaxCount == 7

\* executions of the chain the model follows in ChainSpec
MaxRequests == 1
\* executions of a one-provider chain the model follows in ProviderSpec
MaxDispatches == 6

\* concurrent callers of the rate limiter
NumAcquirers == 2
\* the rate limiter's clock (time.time()) counts ticks of 1/TicksPerSecond s,
\* up to RLMaxTicks; the token level is kept in units of 1/TicksPerSecond
\* token, so that one tick refills exactly rl_rate units
TicksPerSecond == 4
RLMaxTicks == 6
\* the largest number of tokens asked for in one acquire
MaxTokensAsked == 5

\* export: set calls made on the two stores in a run
MaxExportSets == 1

\* translation engine: translate calls in a run, distinct source texts,
\* a configured max_cache_size other than the default
MaxTranslates == 2
MaxCodes == 3
ConfiguredCacheSize == 50

\* load balancer: pool size, threads calling select_provider, calls and
\* health changes in a run
PoolSize == 3
NumSelectors == 2
MaxSelects == 4
MaxStatusChanges == 1

\* provider registry: create_provider and shutdown calls in a run
MaxCreates == 3
MaxShutdowns == 1

\* language detector: lines of the text given to detect_language
MaxLines == 3

\* error handler: handle_error calls in a run
MaxErrors == 2

\* lifecycle manager: cleanup functions registered and shutdown calls in a
\* run
MaxCleanups == 2
MaxLcShutdowns == 2

\* circuit breaker configurations: the thresholds range over 1..MaxThreshold
MaxThreshold == 2
\* callers of the breaker that keep calling in LiveSpec
NumLiveCallers == 1

\* RateLimiter(rate=2, burst=4)
\* PriorityQueue: calling threads, items put in a run, largest maxsize tried
NumPQThreads == 2
MaxPuts == 3
MaxQueueSize == 1

\* configuration store: mutating calls and outside overwrites of the live
\* file in a run, keys one transaction sets
MaxConfigOps == 2
MaxTxKeys == 2

rl_rate == 2
rl_burst == 4

Callers == 1..NumCallers
Acquirers == 1..NumAcquirers

Min(a, b) == IF a < b THEN a ELSE b

VARIABLES
    now,          \* the clock (datetime.now() / time.time()), in seconds
    ev,           \* the operation that made the last step
    \* ---- Spec: CircuitBreaker ----
    cb,           \* the CircuitBreaker object's fields
    pc,           \* per caller: "idle" or "running" (inside func)
    admittedFrom, \* per caller: breaker state seen when its call was admitted
    trans,        \* per caller: state transitions caused by its current call
    calls,        \* history: calls started
    invocations,  \* history: times the wrapped function was invoked
    streak,       \* history: failures recorded since the last recorded success
    plainRun,     \* history: no success, no overlap, never HALF_OPEN so far
    windowAdmitted, \* history: calls admitted since HALF_OPEN was entered
    openedAt      \* history: the time of the last transition to OPEN

    \* ---- ChainSpec: ProviderChain over provider instances ----
VARIABLES
    p_status,     \* per provider: BaseProvider._status
    p_cb,         \* per provider: BaseProvider.circuit_breaker
    p_metrics,    \* per provider: request counters of BaseProvider.metrics
    chain,        \* ProviderChain.providers
    last_used_index, \* ProviderChain._last_used_index (0-based)
    x_pc,         \* the execute coroutine: idle, iter, awaiting, returned, raised
    x_i,          \* execute: position in the chain (1-based)
    x_exceptions, \* execute: the local list exceptions
    x_result,     \* execute: the value returned
    x_log,        \* history of this execute: one entry per provider reached
    x_produced,   \* history: the value the underlying call returned
    x_passes,     \* history: breaker admissions made by the last dispatch
    u_inv,        \* history per provider: underlying calls invoked
    pristine,     \* history per provider: no success, never HALF_OPEN so far
    requests,     \* history: executions started
    budget        \* the number of executions the model follows

chainVars == <<p_status, p_cb, p_metrics, chain, last_used_index, x_pc, x_i,
               x_exceptions, x_result, x_log, x_produced, x_passes, u_inv,
               pristine, requests, budget>>

    \* ---- RLSpec: RateLimiter ----
VARIABLES
    rl_clock,     \* time.time(), in ticks
    rl_tokens,    \* RateLimiter.tokens, in units
    rl_last_update, \* RateLimiter.last_update, in ticks
    rl_lock,      \* RateLimiter._lock: 0, or the acquirer sleeping inside it
    rl_wake,      \* the tick at which the sleeping acquirer's sleep is over
    rl_asked,     \* the tokens the sleeping acquirer asked for
    rl_granted    \* history: tokens granted by the calls that returned true

rlVars == <<rl_clock, rl_tokens, rl_last_update, rl_lock, rl_wake, rl_asked,
            rl_granted>>

    \* ---- PQSpec: PriorityQueue ----
VARIABLES
    pq_maxsize,   \* the maxsize given to the constructor (0: unbounded)
    pq_queues,    \* PriorityQueue.queues: priority value -> FIFO of items
    pq_sem,       \* PriorityQueue._semaphore: its counter
    pq_pc,        \* per thread: where it is inside put or get
    pq_item,      \* per thread: the item its put is carrying
    pq_level,     \* per thread: position of its get in the priority scan
    pq_puts,      \* history: number of put calls made (item ids are 1..)
    pq_returned,  \* history: ids of the items returned by get, in order
    pq_serial     \* history: no two calls have overlapped so far

pqVars == <<pq_maxsize, pq_queues, pq_sem, pq_pc, pq_item, pq_level, pq_puts,
            pq_returned, pq_serial>>

    \* ---- CfgSpec: ConfigurationManager ----
VARIABLES
    cfg_mgr,      \* "closed": no manager object; "open": constructed
    cfg_data,     \* ConfigurationManager._data
    cfg_live,     \* the live file config.json
    cfg_backups,  \* the files of backups/, in the order they were created
    cfg_clock,    \* logical time of the last write of the live file
    cfg_budget,   \* mutating calls and outside overwrites left in this run
    cfg_acked,    \* history: the record the last write that returned put
                  \* into the live file
    tx_state,     \* the transaction scope: "none", "active", "committing"
    tx_changes,   \* ConfigTransaction.changes, in insertion order
    tx_original,  \* ConfigTransaction.original_values
    tx_applied,   \* commit: how many changes _set_internal has applied
    tx_entry_data, \* history: _data when the scope was entered
    tx_entry_live  \* history: the live file when the scope was entered

txVars == <<tx_state, tx_changes, tx_original, tx_applied, tx_entry_data,
            tx_entry_live>>

cfgVars == <<cfg_mgr, cfg_data, cfg_live, cfg_backups, cfg_clock, cfg_budget,
             cfg_acked, txVars>>

    \* ---- ExportSpec: ConfigurationManager.export on two stores ----
VARIABLES
    exp_data,     \* per store: ConfigurationManager._data
    exp_snapshot, \* per store: the file its last export wrote
    exp_sets      \* set calls made so far in this run

expVars == <<exp_data, exp_snapshot, exp_sets>>

    \* ---- TranslateSpec: TranslatorEngine.translate_async ----
VARIABLES
    tr_cache,     \* TranslatorEngine._cache, in dict (insertion) order; each
                  \* entry also carries the time of its last use (history)
    tr_providers, \* the keys of TranslatorEngine.providers
    tr_max_cache_size, \* the max_cache_size field of the settings
    tr_awaiting,  \* the calls suspended in asyncio.to_thread: a bag of
                  \* requests
    tr_calls,     \* history: translate calls started
    tr_clock,     \* history: uses of cache entries so far
    tr_stored     \* history: per key stored in this run, the text last
                  \* stored under it

trVars == <<tr_cache, tr_providers, tr_max_cache_size, tr_awaiting, tr_calls,
            tr_clock, tr_stored>>

    \* ---- LBSpec: LoadBalancer with the round_robin strategy ----
VARIABLES
    lb_status,    \* per pool position: the instance's _status
    lb_index,     \* LoadBalancer._index
    lb_lock,      \* LoadBalancer._lock: the thread holding it, 0 if free
    lb_pc,        \* per thread: "idle", "filtered", "locked"
    lb_healthy,   \* per thread: its healthy_providers list (pool positions)
    lb_read,      \* per thread: the counter value it read under the lock
    lb_calls,     \* history: select_provider calls started
    lb_changes,   \* history: status changes made by health probes
    lb_picks,     \* history: counter value and pool position of each
                  \* selection, in order of return
    lb_clean      \* history: no instance has been unhealthy so far

lbVars == <<lb_status, lb_index, lb_lock, lb_pc, lb_healthy, lb_read,
            lb_calls, lb_changes, lb_picks, lb_clean>>

    \* ---- RegistrySpec: ProviderRegistry ----
VARIABLES
    reg_instances, \* ProviderRegistry.provider_instances, in dict order:
                   \* entries of name and instance
    reg_pending,   \* create_provider calls suspended in initialize()
    reg_tasks,     \* the instances whose _health_check_task is running
    reg_status,    \* per instance created: BaseProvider._status
    reg_sd,        \* the shutdown call in progress: its place in the loop
                   \* over provider_instances.values()
    reg_created,   \* history: instances constructed (they are numbered)
    reg_shutdowns  \* history: shutdown calls started

regVars == <<reg_instances, reg_pending, reg_tasks, reg_status, reg_sd,
             reg_created, reg_shutdowns>>

    \* ---- DetectSpec: TranslatorEngine.detect_language ----
VARIABLES
    det_code,     \* the text to detect: the set of its lines
    det_result    \* "pending", or what detect_language returned for det_code

detVars == <<det_code, det_result>>

    \* ---- ErrorSpec: ErrorHandler.handle_error ----
VARIABLES
    err_returned,         \* the ErrorInfo returned by the last handle_error
    err_severity_counts,  \* telemetry.severity_counts
    err_calls             \* handle_error calls made

errVars == <<err_returned, err_severity_counts, err_calls>>

    \* ---- LifecycleSpec: ApplicationLifecycleManager ----
VARIABLES
    lc_state,      \* self.state
    lc_plugins,    \* the keys of self.plugins
    lc_cleanups,   \* self._cleanup_functions: [id, raises], in order
    lc_ran,        \* the cleanup functions run so far, in order
    lc_sd,         \* the shutdown coroutine that is suspended, if any
    lc_shutdowns   \* shutdown calls made

lcVars == <<lc_state, lc_plugins, lc_cleanups, lc_ran, lc_sd, lc_shutdowns>>

cbVars == <<cb, pc, admittedFrom, trans, calls, invocations, streak, plainRun,
            windowAdmitted, openedAt>>

\* the provider core and the configuration store
coreVars == <<cbVars, chainVars, rlVars, pqVars, cfgVars>>

\* export, translation engine, load balancer, registry, language detector
auxVars == <<errVars, lcVars>>

appVars == <<expVars, trVars, lbVars, regVars, detVars, auxVars>>

vars == <<now, ev, coreVars, appVars>>

\* what the steps of each component leave alone
notCB == <<chainVars, rlVars, pqVars, cfgVars, appVars>>
notChain == <<cbVars, rlVars, pqVars, cfgVars, appVars>>
notRL == <<now, cbVars, chainVars, pqVars, cfgVars, appVars>>
notPQ == <<now, cbVars, chainVars, rlVars, cfgVars, appVars>>
notCfg == <<now, cbVars, chainVars, rlVars, pqVars, appVars>>
notExp == <<now, coreVars, trVars, lbVars, regVars, detVars, auxVars>>
notTr == <<now, coreVars, expVars, lbVars, regVars, detVars, auxVars>>
notLB == <<now, coreVars, expVars, trVars, regVars, detVars, auxVars>>
notReg == <<now, coreVars, expVars, trVars, lbVars, detVars, auxVars>>
notDet == <<now, coreVars, expVars, trVars, lbVars, regVars, auxVars>>
notAux == <<now, coreVars, expVars, trVars, lbVars, regVars, detVars>>
notErr == <<notAux, lcVars>>
notLc == <<notAux, errVars>>

(***************************************************************************)
(* CircuitBreaker                                                          *)
(***************************************************************************)
\* CircuitBreakerConfig(): the defaults
CircuitBreakerConfig ==
    [failure_threshold |-> failure_threshold,
     recovery_timeout |-> recovery_timeout,
     success_threshold |-> success_threshold,
     half_open_max_requests |-> half_open_max_requests]

CircuitBreakerInit ==
    [config |-> CircuitBreakerConfig,
     state |-> "closed", failure_count |-> 0, success_count |-> 0,
     last_failure_time |-> None, half_open_requests |-> 0]

\* variant: one probe too many is admitted in HALF_OPEN
_can_execute_offbyone(b, t) ==
    IF b.state = "closed" THEN [ok |-> TRUE, cb |-> b]
    ELSE IF b.state = "open" THEN
        IF b.last_failure_time # None /\ t - b.last_failure_time > b.config.recovery_timeout
        THEN [ok |-> TRUE,
              cb |-> [b EXCEPT !.state = "half_open", !.half_open_requests = 0]]
        ELSE [ok |-> FALSE, cb |-> b]
    ELSE [ok |-> b.half_open_requests <= b.config.half_open_max_requests, cb |-> b]

\* variant: the recovery check is made in every state but HALF_OPEN
_can_execute_anystate(b, t) ==
    IF b.state # "half_open" /\ b.last_failure_time # None
       /\ t - b.last_failure_time > b.config.recovery_timeout
    THEN [ok |-> TRUE,
          cb |-> [b EXCEPT !.state = "half_open", !.half_open_requests = 0]]
    ELSE IF b.state = "closed" THEN [ok |-> TRUE, cb |-> b]
    ELSE IF b.state = "open" THEN [ok |-> FALSE, cb |-> b]
    ELSE [ok |-> b.half_open_requests < b.config.half_open_max_requests, cb |-> b]

\* _can_execute: the answer and the breaker it leaves behind
_can_execute(b, t) ==
    IF b.state = "closed" THEN [ok |-> TRUE, cb |-> b]
    ELSE IF b.state = "open" THEN
        IF b.last_failure_time # None /\ t - b.last_failure_time > b.config.recovery_timeout
        THEN [ok |-> TRUE,
              cb |-> [b EXCEPT !.state = "half_open", !.half_open_requests = 0]]
        ELSE [ok |-> FALSE, cb |-> b]
    ELSE [ok |-> b.half_open_requests < b.config.half_open_max_requests, cb |-> b]

\* the locked prologue of call / async_call
async_call_admit(b, t) ==
    LET r == _can_execute(b, t) IN
    IF ~r.ok THEN r
    ELSE IF r.cb.state = "half_open"
         THEN [ok |-> TRUE,
               cb |-> [r.cb EXCEPT !.half_open_requests = @ + 1]]
         ELSE r

\* variant: closing does not reset the failure counter
_on_success_noreset(b) ==
    IF b.state = "half_open" THEN
        IF b.success_count + 1 >= b.config.success_threshold
        THEN [b EXCEPT !.state = "closed", !.success_count = 0]
        ELSE [b EXCEPT !.success_count = @ + 1]
    ELSE IF b.state = "closed" THEN [b EXCEPT !.failure_count = 0]
    ELSE b

_on_success(b) ==
    IF b.state = "half_open" THEN
        IF b.success_count + 1 >= b.config.success_threshold
        THEN [b EXCEPT !.state = "closed", !.failure_count = 0, !.success_count = 0]
        ELSE [b EXCEPT !.success_count = @ + 1]
    ELSE IF b.state = "closed" THEN [b EXCEPT !.failure_count = 0]
    ELSE b

\* variant: the breaker opens one failure late
_on_failure_late(b, t) ==
    LET b1 == [b EXCEPT !.failure_count = @ + 1, !.last_failure_time = t] IN
    IF b1.state = "closed" THEN
        IF b1.failure_count > b1.config.failure_threshold
        THEN [b1 EXCEPT !.state = "open"]
        ELSE b1
    ELSE IF b1.state = "half_open"
    THEN [b1 EXCEPT !.state = "open", !.success_count = 0]
    ELSE b1

_on_failure(b, t) ==
    LET b1 == [b EXCEPT !.failure_count = @ + 1, !.last_failure_time = t] IN
    IF b1.state = "closed" THEN
        IF b1.failure_count >= b1.config.failure_threshold
        THEN [b1 EXCEPT !.state = "open"]
        ELSE b1
    ELSE IF b1.state = "half_open"
    THEN [b1 EXCEPT !.state = "open", !.success_count = 0]
    ELSE b1

Bump(n) == Min(n + 1, MaxCount)
Moved(b1, b2) == IF b1.state # b2.state THEN 1 ELSE 0

CBInit ==
    /\ cb = CircuitBreakerInit
    /\ pc = [t \in Callers |-> "idle"]
    /\ admittedFrom = [t \in Callers |-> "none"]
    /\ trans = [t \in Callers |-> 0]
    /\ calls = 0
    /\ invocations = 0
    /\ streak = 0
    /\ plainRun = TRUE
    /\ windowAdmitted = 0
    /\ openedAt = None

\* A caller enters call/async_call and the breaker rejects it.
Reject(t) ==
    /\ pc[t] = "idle"
    /\ ~async_call_admit(cb, now).ok
    /\ cb' = async_call_admit(cb, now).cb
    /\ calls' = Bump(calls)
    /\ ev' = [type |-> "reject", who |-> t]
    /\ plainRun' = (plainRun /\ \A u \in Callers : pc[u] = "idle")
    /\ UNCHANGED <<now, pc, admittedFrom, trans, invocations, streak,
                   windowAdmitted, openedAt>>
    /\ UNCHANGED notCB

\* A caller enters call/async_call, is admitted and func starts running.
Admit(t) ==
    /\ pc[t] = "idle"
    /\ async_call_admit(cb, now).ok
    /\ cb' = async_call_admit(cb, now).cb
    /\ pc' = [pc EXCEPT ![t] = "running"]
    /\ admittedFrom' = [admittedFrom EXCEPT ![t] = cb.state]
    /\ trans' = [trans EXCEPT ![t] = Moved(cb, cb')]
    /\ calls' = Bump(calls)
    /\ invocations' = Bump(invocations)
    /\ windowAdmitted' = IF cb'.state # "half_open" THEN 0
                         ELSE IF cb.state # "half_open" THEN 1
                         ELSE Min(windowAdmitted + 1,
                                  cb.config.half_open_max_requests + 1)
    /\ plainRun' = (plainRun /\ cb'.state # "half_open"
                             /\ \A u \in Callers : pc[u] = "idle")
    /\ ev' = [type |-> "admit", who |-> t]
    /\ UNCHANGED <<now, streak, openedAt>>
    /\ UNCHANGED notCB

\* func returns; _on_success records it.
Succeed(t) ==
    /\ pc[t] = "running"
    /\ cb' = _on_success(cb)
    /\ pc' = [pc EXCEPT ![t] = "idle"]
    /\ trans' = [trans EXCEPT ![t] = @ + Moved(cb, cb')]
    /\ streak' = 0
    /\ plainRun' = FALSE
    /\ windowAdmitted' = IF cb'.state = "half_open" THEN windowAdmitted ELSE 0
    /\ ev' = [type |-> "success", who |-> t]
    /\ UNCHANGED <<now, admittedFrom, calls, invocations, openedAt>>
    /\ UNCHANGED notCB

\* func raises; _on_failure records it and the fault propagates.
Fail(t) ==
    /\ pc[t] = "running"
    /\ cb' = _on_failure(cb, now)
    /\ pc' = [pc EXCEPT ![t] = "idle"]
    /\ trans' = [trans EXCEPT ![t] = @ + Moved(cb, cb')]
    /\ streak' = Bump(streak)
    /\ openedAt' = IF cb.state # "open" /\ cb'.state = "open" THEN now ELSE openedAt
    /\ windowAdmitted' = IF cb'.state = "half_open" THEN windowAdmitted ELSE 0
    /\ ev' = [type |-> "failure", who |-> t]
    /\ UNCHANGED <<admittedFrom, calls, invocations, plainRun, now>>
    /\ UNCHANGED notCB

\* Time passes.
Tick ==
    /\ now + TickSeconds <= MaxTime
    /\ now' = now + TickSeconds
    /\ ev' = [type |-> "tick", who |-> 0]
    /\ UNCHANGED <<cbVars, chainVars, rlVars, pqVars, cfgVars, appVars>>


(***************************************************************************)
(* RateLimiter                                                             *)
(***************************************************************************)
Unit == TicksPerSecond

\* variant: the refill is not clamped to burst
Refill_unclamped(tokens, last_update, t) ==
    tokens + (t - last_update) * rl_rate

\* tokens = min(burst, tokens + elapsed * rate)
Refill(tokens, last_update, t) ==
    Min(rl_burst * Unit, tokens + (t - last_update) * rl_rate)

\* wait_time = (tokens - self.tokens) / self.rate, in whole ticks
WaitTicks(k, tokens) == (k * Unit - tokens + rl_rate - 1) \div rl_rate

RLInit ==
    /\ rl_clock = 0
    /\ rl_tokens = rl_burst * Unit
    /\ rl_last_update = 0
    /\ rl_lock = 0
    /\ rl_wake = 0
    /\ rl_asked = 0
    /\ rl_granted = 0

\* acquire(k, blocking) finds enough tokens after the refill and debits them
AcquireGranted(t, k, blocking) ==
    /\ rl_lock = 0
    /\ LET level == Refill(rl_tokens, rl_last_update, rl_clock) IN
        /\ level >= k * Unit
        /\ rl_tokens' = level - k * Unit
    /\ rl_last_update' = rl_clock
    /\ rl_granted' = rl_granted + k
    /\ ev' = [type |-> "acquire", who |-> t, k |-> k, blocking |-> blocking,
              ok |-> TRUE]
    /\ UNCHANGED <<rl_clock, rl_lock, rl_wake, rl_asked>>
    /\ UNCHANGED notRL

\* acquire(k, blocking=False) finds too few tokens and returns False
AcquireRefused(t, k) ==
    /\ rl_lock = 0
    /\ LET level == Refill(rl_tokens, rl_last_update, rl_clock) IN
        /\ level < k * Unit
        /\ rl_tokens' = level
    /\ rl_last_update' = rl_clock
    /\ ev' = [type |-> "acquire", who |-> t, k |-> k, blocking |-> FALSE,
              ok |-> FALSE]
    /\ UNCHANGED <<rl_clock, rl_lock, rl_wake, rl_asked, rl_granted>>
    /\ UNCHANGED notRL

\* acquire(k, blocking=True) finds too few tokens and sleeps, holding the lock
AcquireSleep(t, k) ==
    /\ rl_lock = 0
    /\ LET level == Refill(rl_tokens, rl_last_update, rl_clock) IN
        /\ level < k * Unit
        /\ rl_tokens' = level
        /\ rl_wake' = rl_clock + WaitTicks(k, level)
    /\ rl_last_update' = rl_clock
    /\ rl_lock' = t
    /\ rl_asked' = k
    /\ ev' = [type |-> "sleep", who |-> t, k |-> k, blocking |-> TRUE,
              ok |-> FALSE]
    /\ UNCHANGED <<rl_clock, rl_granted>>
    /\ UNCHANGED notRL

\* variant: the woken acquirer debits what it asked for from the level
AcquireWake_debit(t) ==
    /\ rl_lock = t
    /\ rl_clock >= rl_wake
    /\ rl_tokens' = rl_tokens - rl_asked * Unit
    /\ rl_lock' = 0
    /\ rl_granted' = rl_granted + rl_asked
    /\ rl_asked' = 0
    /\ ev' = [type |-> "acquire", who |-> t, k |-> rl_asked, blocking |-> TRUE,
              ok |-> TRUE]
    /\ UNCHANGED <<rl_clock, rl_last_update, rl_wake>>
    /\ UNCHANGED notRL

\* the sleep is over: tokens = 0, return True, the lock is released
AcquireWake(t) ==
    /\ rl_lock = t
    /\ rl_clock >= rl_wake
    /\ rl_tokens' = 0
    /\ rl_lock' = 0
    /\ rl_granted' = rl_granted + rl_asked
    /\ rl_asked' = 0
    /\ ev' = [type |-> "acquire", who |-> t, k |-> rl_asked, blocking |-> TRUE,
              ok |-> TRUE]
    /\ UNCHANGED <<rl_clock, rl_last_update, rl_wake>>
    /\ UNCHANGED notRL

RLTick ==
    /\ rl_clock < RLMaxTicks
    /\ rl_clock' = rl_clock + 1
    /\ ev' = [type |-> "tick", who |-> 0]
    /\ UNCHANGED <<rl_tokens, rl_last_update, rl_lock, rl_wake, rl_asked,
                   rl_granted>>
    /\ UNCHANGED notRL

(***************************************************************************)
(* Provider instances and ProviderChain                                    *)
(***************************************************************************)
\* the chain built by _setup_provider_chain from the registry
ChainProviders == <<"openai", "anthropic", "offline">>
Providers == {ChainProviders[j] : j \in 1..Len(ChainProviders)}

\* providers whose translate_code itself ends in
\* self.execute_with_resilience(make_request, ...)
NestedResilience == {"openai", "anthropic", "google"}

\* what a provider's underlying call can return
Values == {"text_a", "text_b"}
NoValue == "none"

ProviderMetricsInit ==
    [total_requests |-> 0, successful_requests |-> 0, failed_requests |-> 0]

\* the provider has the operation func_name (every BaseProvider subclass
\* defines translate_code, the operation the chain is used with)
HasOperation(p) == TRUE

\* variant: no provider is ever skipped
SkipProvider_never(status) == FALSE

\* the chain passes over a provider with this status
SkipProvider(status) == status = "unhealthy"

\* metrics update of the except branch of execute_with_resilience
MetricsFailure(m) ==
    [m EXCEPT !.failed_requests = Bump(@), !.total_requests = Bump(@)]

\* metrics update of the success branch of execute_with_resilience
MetricsSuccess(m) ==
    [m EXCEPT !.successful_requests = Bump(@), !.total_requests = Bump(@)]

\* execute_with_resilience(func) up to the point where the underlying call
\* is in flight: what happened, the breaker and the metrics left behind, and
\* the number of breaker admissions made.  For a provider of NestedResilience
\* func is translate_code, which enters execute_with_resilience again.
Dispatch(p, b, m, t) ==
    LET outer == async_call_admit(b, t) IN
    IF ~outer.ok
    THEN [out |-> "rejected", cb |-> outer.cb, metrics |-> MetricsFailure(m),
          passes |-> 0]
    ELSE IF p \notin NestedResilience
    THEN [out |-> "invoked", cb |-> outer.cb, metrics |-> m, passes |-> 1]
    ELSE LET inner == async_call_admit(outer.cb, t) IN
         IF ~inner.ok
         THEN [out |-> "rejected", cb |-> _on_failure(inner.cb, t),
               metrics |-> MetricsFailure(MetricsFailure(m)), passes |-> 1]
         ELSE [out |-> "invoked", cb |-> inner.cb, metrics |-> m, passes |-> 2]

\* the underlying call returned: every enclosing async_call records success
CompleteSuccess(p, b, m) ==
    IF p \in NestedResilience
    THEN [cb |-> _on_success(_on_success(b)),
          metrics |-> MetricsSuccess(MetricsSuccess(m))]
    ELSE [cb |-> _on_success(b), metrics |-> MetricsSuccess(m)]

\* the underlying call raised: every enclosing async_call records failure
CompleteFailure(p, b, m, t) ==
    IF p \in NestedResilience
    THEN [cb |-> _on_failure(_on_failure(b, t), t),
          metrics |-> MetricsFailure(MetricsFailure(m))]
    ELSE [cb |-> _on_failure(b, t), metrics |-> MetricsFailure(m)]

\* a provider after its construction (BaseProvider.__init__)
FreshProvider ==
    [cb |-> CircuitBreakerInit, metrics |-> ProviderMetricsInit, u_inv |-> 0]

\* a provider whose breaker has just been opened by failing dispatches at
\* time 0 and nothing else: failure_threshold failures of a plain provider,
\* (failure_threshold + 1) \div 2 doubly recorded ones of a nested provider
TrippedProvider(p) ==
    LET n == IF p \in NestedResilience
             THEN 2 * ((failure_threshold + 1) \div 2) ELSE failure_threshold
    IN [cb |-> [CircuitBreakerInit EXCEPT !.state = "open", !.failure_count = n,
                                          !.last_failure_time = 0],
        metrics |-> [ProviderMetricsInit EXCEPT !.total_requests = Min(n, MaxCount),
                                                !.failed_requests = Min(n, MaxCount)],
        u_inv |-> IF p \in NestedResilience THEN n \div 2 ELSE n]

ExecuteInit ==
    /\ last_used_index = 0
    /\ x_pc = "idle"
    /\ x_i = 1
    /\ x_exceptions = <<>>
    /\ x_result = NoValue
    /\ x_log = <<>>
    /\ x_produced = NoValue
    /\ x_passes = 0
    /\ pristine = [p \in Providers |-> TRUE]
    /\ requests = 0

\* a chain over the registry's providers, each either fresh or tripped
ChainInit ==
    /\ budget = MaxRequests
    /\ chain = ChainProviders
    /\ p_status = [p \in Providers |-> "unknown"]
    /\ \E tripped \in SUBSET Providers :
         LET st == [p \in Providers |->
                      IF p \in tripped THEN TrippedProvider(p) ELSE FreshProvider]
         IN /\ p_cb = [p \in Providers |-> st[p].cb]
            /\ p_metrics = [p \in Providers |-> st[p].metrics]
            /\ u_inv = [p \in Providers |-> st[p].u_inv]
    /\ ExecuteInit

\* the chain while the model follows no execute
ChainQuiet ==
    /\ budget = 0
    /\ chain = ChainProviders
    /\ p_status = [p \in Providers |-> "unknown"]
    /\ p_cb = [p \in Providers |-> FreshProvider.cb]
    /\ p_metrics = [p \in Providers |-> FreshProvider.metrics]
    /\ u_inv = [p \in Providers |-> FreshProvider.u_inv]
    /\ ExecuteInit

\* every provider is dispatched to on its own, as a chain of one
OneProviderInit ==
    /\ budget = MaxDispatches
    /\ chain \in {<<p>> : p \in Providers}
    /\ p_status = [p \in Providers |-> "unknown"]
    /\ p_cb = [p \in Providers |-> FreshProvider.cb]
    /\ p_metrics = [p \in Providers |-> FreshProvider.metrics]
    /\ u_inv = [p \in Providers |-> FreshProvider.u_inv]
    /\ ExecuteInit

\* the loop variable provider: bound when the loop reaches position x_i, and
\* kept while the provider's call is awaited
Cur == IF x_pc = "awaiting" THEN x_log[Len(x_log)].p ELSE chain[x_i]

\* execute is called: exceptions = [], the loop starts
ChainStart ==
    /\ x_pc \in {"idle", "returned", "raised"}
    /\ requests < budget
    /\ requests' = requests + 1
    /\ x_pc' = "iter"
    /\ x_i' = 1
    /\ x_exceptions' = <<>>
    /\ x_result' = NoValue
    /\ x_log' = <<>>
    /\ x_produced' = NoValue
    /\ x_passes' = 0
    /\ ev' = [type |-> "start", who |-> 0]
    /\ UNCHANGED <<now, p_status, p_cb, p_metrics, chain, last_used_index,
                   u_inv, pristine, budget>>
    /\ UNCHANGED notChain

\* the loop passes over the current provider
ChainSkip ==
    /\ x_pc = "iter" /\ x_i <= Len(chain)
    /\ SkipProvider(p_status[Cur]) \/ ~HasOperation(Cur)
    /\ x_i' = x_i + 1
    /\ x_log' = Append(x_log, [p |-> Cur, what |-> "skipped"])
    /\ ev' = [type |-> "skip", who |-> 0]
    /\ UNCHANGED <<now, p_status, p_cb, p_metrics, chain, last_used_index,
                   x_pc, x_exceptions, x_result, x_produced, x_passes, u_inv,
                   pristine, requests, budget>>
    /\ UNCHANGED notChain

\* the loop dispatches to the current provider and a breaker rejects the
\* call: the fault is appended to exceptions and the loop continues
ChainRejected ==
    /\ x_pc = "iter" /\ x_i <= Len(chain)
    /\ ~SkipProvider(p_status[Cur]) /\ HasOperation(Cur)
    /\ LET d == Dispatch(Cur, p_cb[Cur], p_metrics[Cur], now) IN
        /\ d.out = "rejected"
        /\ p_cb' = [p_cb EXCEPT ![Cur] = d.cb]
        /\ p_metrics' = [p_metrics EXCEPT ![Cur] = d.metrics]
        /\ x_passes' = d.passes
        /\ pristine' = [pristine EXCEPT
                          ![Cur] = @ /\ d.cb.state # "half_open"
                                     /\ p_cb[Cur].state # "half_open"]
    /\ x_exceptions' = Append(x_exceptions, [name |-> Cur, e |-> "breaker_open"])
    /\ x_log' = Append(x_log, [p |-> Cur, what |-> "rejected"])
    /\ x_i' = x_i + 1
    /\ ev' = [type |-> "rejected", who |-> 0]
    /\ UNCHANGED <<now, p_status, chain, last_used_index, x_pc, x_result,
                   x_produced, u_inv, requests, budget>>
    /\ UNCHANGED notChain

\* the loop dispatches to the current provider, the breaker admits the call
\* and the underlying call is awaited
ChainDispatch ==
    /\ x_pc = "iter" /\ x_i <= Len(chain)
    /\ ~SkipProvider(p_status[Cur]) /\ HasOperation(Cur)
    /\ LET d == Dispatch(Cur, p_cb[Cur], p_metrics[Cur], now) IN
        /\ d.out = "invoked"
        /\ p_cb' = [p_cb EXCEPT ![Cur] = d.cb]
        /\ p_metrics' = [p_metrics EXCEPT ![Cur] = d.metrics]
        /\ x_passes' = d.passes
        /\ pristine' = [pristine EXCEPT ![Cur] = @ /\ d.cb.state # "half_open"]
    /\ u_inv' = [u_inv EXCEPT ![Cur] = Bump(@)]
    /\ x_log' = Append(x_log, [p |-> Cur, what |-> "invoked"])
    /\ x_pc' = "awaiting"
    /\ ev' = [type |-> "dispatch", who |-> 0]
    /\ UNCHANGED <<now, p_status, chain, last_used_index, x_i, x_exceptions,
                   x_result, x_produced, requests, budget>>
    /\ UNCHANGED notChain

SetLast(log, what) == [log EXCEPT ![Len(log)].what = what]

\* variant: the loop goes on after a provider returned
ChainSucceed_goeson(v) ==
    /\ x_pc = "awaiting"
    /\ LET c == CompleteSuccess(Cur, p_cb[Cur], p_metrics[Cur]) IN
        /\ p_cb' = [p_cb EXCEPT ![Cur] = c.cb]
        /\ p_metrics' = [p_metrics EXCEPT ![Cur] = c.metrics]
    /\ pristine' = [pristine EXCEPT ![Cur] = FALSE]
    /\ x_produced' = v
    /\ x_result' = v
    /\ last_used_index' = x_i - 1
    /\ x_log' = SetLast(x_log, "returned")
    /\ x_pc' = IF x_i < Len(chain) THEN "iter" ELSE "returned"
    /\ x_i' = IF x_i < Len(chain) THEN x_i + 1 ELSE x_i
    /\ ev' = [type |-> "returned", who |-> 0]
    /\ UNCHANGED <<now, p_status, chain, x_exceptions, x_passes, u_inv, requests, budget>>
    /\ UNCHANGED notChain

\* the underlying call returns v: execute returns it
ChainSucceed(v) ==
    /\ x_pc = "awaiting"
    /\ LET c == CompleteSuccess(Cur, p_cb[Cur], p_metrics[Cur]) IN
        /\ p_cb' = [p_cb EXCEPT ![Cur] = c.cb]
        /\ p_metrics' = [p_metrics EXCEPT ![Cur] = c.metrics]
    /\ pristine' = [pristine EXCEPT ![Cur] = FALSE]
    /\ x_produced' = v
    /\ x_result' = v
    /\ last_used_index' = x_i - 1
    /\ x_log' = SetLast(x_log, "returned")
    /\ x_pc' = "returned"
    /\ ev' = [type |-> "returned", who |-> 0]
    /\ UNCHANGED <<now, p_status, chain, x_i, x_exceptions, x_passes, u_inv,
                   requests, budget>>
    /\ UNCHANGED notChain

\* variant: a provider's fault ends the execution
ChainFail_aborts ==
    /\ x_pc = "awaiting"
    /\ LET c == CompleteFailure(Cur, p_cb[Cur], p_metrics[Cur], now) IN
        /\ p_cb' = [p_cb EXCEPT ![Cur] = c.cb]
        /\ p_metrics' = [p_metrics EXCEPT ![Cur] = c.metrics]
    /\ x_exceptions' = Append(x_exceptions, [name |-> Cur, e |-> "fault"])
    /\ x_log' = SetLast(x_log, "failed")
    /\ x_pc' = "raised"
    /\ ev' = [type |-> "failed", who |-> 0]
    /\ UNCHANGED <<now, p_status, chain, last_used_index, x_i, x_result,
                   x_produced, x_passes, u_inv, pristine, requests, budget>>
    /\ UNCHANGED notChain

\* the underlying call raises: the fault is appended to exceptions and the
\* loop continues
ChainFail ==
    /\ x_pc = "awaiting"
    /\ LET c == CompleteFailure(Cur, p_cb[Cur], p_metrics[Cur], now) IN
        /\ p_cb' = [p_cb EXCEPT ![Cur] = c.cb]
        /\ p_metrics' = [p_metrics EXCEPT ![Cur] = c.metrics]
    /\ x_exceptions' = Append(x_exceptions, [name |-> Cur, e |-> "fault"])
    /\ x_log' = SetLast(x_log, "failed")
    /\ x_i' = x_i + 1
    /\ x_pc' = "iter"
    /\ ev' = [type |-> "failed", who |-> 0]
    /\ UNCHANGED <<now, p_status, chain, last_used_index, x_result,
                   x_produced, x_passes, u_inv, pristine, requests, budget>>
    /\ UNCHANGED notChain

\* the loop is over: raise Exception("All providers failed: ...")
ChainRaise ==
    /\ x_pc = "iter" /\ x_i > Len(chain)
    /\ x_pc' = "raised"
    /\ ev' = [type |-> "raised", who |-> 0]
    /\ UNCHANGED <<now, p_status, p_cb, p_metrics, chain, last_used_index,
                   x_i, x_exceptions, x_result, x_log, x_produced, x_passes,
                   u_inv, pristine, requests, budget>>
    /\ UNCHANGED notChain

\* other coroutines run, and time passes, only while execute is suspended in
\* a provider call or while no execute is running; the model stops
\* following them after its last execute
Suspended ==
    \/ x_pc = "awaiting"
    \/ x_pc \in {"idle", "returned", "raised"} /\ requests < budget

\* a provider call is in flight, or an execute has ended and another follows
TimePasses ==
    \/ x_pc = "awaiting"
    \/ x_pc \in {"returned", "raised"} /\ requests < budget

\* the monitor task of start_health_monitoring stores a probe result
HealthProbe(p, s) ==
    /\ Suspended
    /\ \E j \in 1..Len(chain) : chain[j] = p
    /\ p_status[p] # s
    /\ p_status' = [p_status EXCEPT ![p] = s]
    /\ ev' = [type |-> "probe", who |-> 0]
    /\ UNCHANGED <<now, p_cb, p_metrics, chain, last_used_index, x_pc, x_i,
                   x_exceptions, x_result, x_log, x_produced, x_passes, u_inv,
                   pristine, requests, budget>>
    /\ UNCHANGED notChain

ChainTick ==
    /\ TimePasses
    /\ now + TickSeconds <= MaxTime
    /\ now' = now + TickSeconds
    /\ ev' = [type |-> "tick", who |-> 0]
    /\ UNCHANGED <<cbVars, chainVars, rlVars, pqVars, cfgVars, appVars>>

(***************************************************************************)
(* PriorityQueue                                                           *)
(***************************************************************************)
PQThreads == 1..NumPQThreads

\* RequestPriority: LOW = 1, NORMAL = 2, HIGH = 3, CRITICAL = 4
RequestPriority == 1..4

NoItem == [id |-> 0, priority |-> 0]

\* variant: the priorities are scanned from the lowest up
ScanOrder_ascending == <<1, 2, 3, 4>>

\* sorted(RequestPriority, key=lambda p: p.value, reverse=True)
ScanOrder == <<4, 3, 2, 1>>

\* queue.Queue.put would block: maxsize > 0 and qsize() >= maxsize
QueueFull(q) == pq_maxsize > 0 /\ Len(q) >= pq_maxsize

\* no call of another thread is in progress
Alone(t) == \A u \in PQThreads \ {t} : pq_pc[u] = "idle"

PQInit ==
    /\ pq_maxsize \in 0..MaxQueueSize
    /\ pq_queues = [p \in RequestPriority |-> <<>>]
    /\ pq_sem = 0
    /\ pq_pc = [t \in PQThreads |-> "idle"]
    /\ pq_item = [t \in PQThreads |-> NoItem]
    /\ pq_level = [t \in PQThreads |-> 0]
    /\ pq_puts = 0
    /\ pq_returned = <<>>
    /\ pq_serial = TRUE

\* no PriorityQueue is in use
PQQuiet ==
    /\ pq_maxsize = 0
    /\ pq_queues = [p \in RequestPriority |-> <<>>]
    /\ pq_sem = 0
    /\ pq_pc = [t \in PQThreads |-> "idle"]
    /\ pq_item = [t \in PQThreads |-> NoItem]
    /\ pq_level = [t \in PQThreads |-> 0]
    /\ pq_puts = 0
    /\ pq_returned = <<>>
    /\ pq_serial = TRUE

\* put(item, priority): self.queues[priority].put(item) has room and returns
PutEnqueue(t, p) ==
    /\ pq_pc[t] = "idle"
    /\ pq_puts < MaxPuts
    /\ ~QueueFull(pq_queues[p])
    /\ pq_puts' = pq_puts + 1
    /\ pq_queues' = [pq_queues EXCEPT
                       ![p] = Append(@, [id |-> pq_puts + 1, priority |-> p])]
    /\ pq_pc' = [pq_pc EXCEPT ![t] = "put_release"]
    /\ pq_serial' = (pq_serial /\ Alone(t))
    /\ ev' = [type |-> "put_enqueued", who |-> t]
    /\ UNCHANGED <<pq_maxsize, pq_sem, pq_item, pq_level, pq_returned>>
    /\ UNCHANGED notPQ

\* put(item, priority): the queue of that priority is full, and
\* queue.Queue.put (block=True, timeout=None) waits for a free slot
PutBlock(t, p) ==
    /\ pq_pc[t] = "idle"
    /\ pq_puts < MaxPuts
    /\ QueueFull(pq_queues[p])
    /\ pq_puts' = pq_puts + 1
    /\ pq_item' = [pq_item EXCEPT ![t] = [id |-> pq_puts + 1, priority |-> p]]
    /\ pq_pc' = [pq_pc EXCEPT ![t] = "put_blocked"]
    /\ pq_serial' = (pq_serial /\ Alone(t))
    /\ ev' = [type |-> "put_blocked", who |-> t]
    /\ UNCHANGED <<pq_maxsize, pq_queues, pq_sem, pq_level, pq_returned>>
    /\ UNCHANGED notPQ

\* a slot has become free: the waiting queue.Queue.put stores the item
PutUnblock(t) ==
    /\ pq_pc[t] = "put_blocked"
    /\ ~QueueFull(pq_queues[pq_item[t].priority])
    /\ pq_queues' = [pq_queues EXCEPT
                       ![pq_item[t].priority] = Append(@, pq_item[t])]
    /\ pq_item' = [pq_item EXCEPT ![t] = NoItem]
    /\ pq_pc' = [pq_pc EXCEPT ![t] = "put_release"]
    /\ ev' = [type |-> "put_enqueued", who |-> t]
    /\ UNCHANGED <<pq_maxsize, pq_sem, pq_level, pq_puts, pq_returned,
                   pq_serial>>
    /\ UNCHANGED notPQ

\* variant: put returns without releasing the semaphore
PutRelease_forgotten(t) ==
    /\ pq_pc[t] = "put_release"
    /\ pq_pc' = [pq_pc EXCEPT ![t] = "idle"]
    /\ ev' = [type |-> "put", who |-> t]
    /\ UNCHANGED <<pq_maxsize, pq_queues, pq_sem, pq_item, pq_level, pq_puts,
                   pq_returned, pq_serial>>
    /\ UNCHANGED notPQ

\* put: self._semaphore.release(), and put returns
PutRelease(t) ==
    /\ pq_pc[t] = "put_release"
    /\ pq_sem' = pq_sem + 1
    /\ pq_pc' = [pq_pc EXCEPT ![t] = "idle"]
    /\ ev' = [type |-> "put", who |-> t]
    /\ UNCHANGED <<pq_maxsize, pq_queues, pq_item, pq_level, pq_puts,
                   pq_returned, pq_serial>>
    /\ UNCHANGED notPQ

\* get(timeout): the semaphore is at zero and the caller waits on it
GetWait(t) ==
    /\ pq_pc[t] = "idle"
    /\ pq_sem = 0
    /\ pq_pc' = [pq_pc EXCEPT ![t] = "get_wait"]
    /\ pq_serial' = (pq_serial /\ Alone(t))
    /\ ev' = [type |-> "get_wait", who |-> t]
    /\ UNCHANGED <<pq_maxsize, pq_queues, pq_sem, pq_item, pq_level, pq_puts,
                   pq_returned>>
    /\ UNCHANGED notPQ

\* get(timeout): self._semaphore.acquire(timeout=timeout) gives up:
\* raise queue.Empty
GetTimeout(t) ==
    /\ pq_pc[t] = "get_wait"
    /\ pq_sem = 0
    /\ pq_pc' = [pq_pc EXCEPT ![t] = "idle"]
    /\ ev' = [type |-> "get", who |-> t, ok |-> FALSE, waited |-> FALSE,
              item |-> NoItem]
    /\ UNCHANGED <<pq_maxsize, pq_queues, pq_sem, pq_item, pq_level, pq_puts,
                   pq_returned, pq_serial>>
    /\ UNCHANGED notPQ

\* get(timeout): self._semaphore.acquire succeeds; the scan starts
GetAcquire(t) ==
    /\ pq_pc[t] \in {"idle", "get_wait"}
    /\ pq_sem > 0
    /\ pq_sem' = pq_sem - 1
    /\ pq_pc' = [pq_pc EXCEPT ![t] = "get_scan"]
    /\ pq_level' = [pq_level EXCEPT ![t] = 1]
    /\ pq_serial' = (pq_serial /\ Alone(t))
    /\ ev' = [type |-> "get_acquired", who |-> t]
    /\ UNCHANGED <<pq_maxsize, pq_queues, pq_item, pq_puts, pq_returned>>
    /\ UNCHANGED notPQ

\* get: self.queues[priority].get_nowait() finds the queue empty: continue
\* with the next priority, and after the last one raise queue.Empty
GetSkip(t) ==
    /\ pq_pc[t] = "get_scan"
    /\ pq_queues[ScanOrder[pq_level[t]]] = <<>>
    /\ IF pq_level[t] < Len(ScanOrder)
         THEN /\ pq_level' = [pq_level EXCEPT ![t] = @ + 1]
              /\ pq_pc' = pq_pc
              /\ ev' = [type |-> "get_skip", who |-> t]
         ELSE /\ pq_level' = [pq_level EXCEPT ![t] = 0]
              /\ pq_pc' = [pq_pc EXCEPT ![t] = "idle"]
              /\ ev' = [type |-> "get", who |-> t, ok |-> FALSE,
                        waited |-> TRUE, item |-> NoItem]
    /\ UNCHANGED <<pq_maxsize, pq_queues, pq_sem, pq_item, pq_puts,
                   pq_returned, pq_serial>>
    /\ UNCHANGED notPQ

\* get: return self.queues[priority].get_nowait()
GetReturn(t) ==
    /\ pq_pc[t] = "get_scan"
    /\ pq_queues[ScanOrder[pq_level[t]]] # <<>>
    /\ LET p == ScanOrder[pq_level[t]] IN
        /\ pq_queues' = [pq_queues EXCEPT ![p] = Tail(@)]
        /\ pq_returned' = Append(pq_returned, Head(pq_queues[p]).id)
        /\ ev' = [type |-> "get", who |-> t, ok |-> TRUE, waited |-> TRUE,
                  item |-> Head(pq_queues[p])]
    /\ pq_pc' = [pq_pc EXCEPT ![t] = "idle"]
    /\ pq_level' = [pq_level EXCEPT ![t] = 0]
    /\ UNCHANGED <<pq_maxsize, pq_sem, pq_item, pq_puts, pq_serial>>
    /\ UNCHANGED notPQ

(***************************************************************************)
(* ConfigurationManager (src/src/config/config_manager.py), JSON backend   *)
(*                                                                         *)
(* The record is a function from the keys present to values.  Of the       *)
(* schema the two required fields are kept; key1 is a key outside the      *)
(* schema, as in test_atomic_transactions.  The reserved keys are not      *)
(* entries of the record: the checksum is the field sum of a file, and     *)
(* the schema version, which no step here depends on, is left out, as are  *)
(* the encrypted fields.  A file carries the logical time of the write     *)
(* that produced its content (its mtime, which shutil.copy2 preserves).    *)
(***************************************************************************)
CfgKeys == {"theme", "font_size", "key1"}

\* values, tagged with their Python type
IntV(n) == [type |-> "int", num |-> n, str |-> ""]
StrV(s) == [type |-> "str", num |-> 0, str |-> s]
NoneV == [type |-> "NoneType", num |-> 0, str |-> ""]

EmptyRecord == [k \in {} |-> NoneV]

\* d[k] = v
Put(d, k, v) == [x \in DOMAIN d \cup {k} |-> IF x = k THEN v ELSE d[x]]

\* d.pop(k, None)
Remove(d, k) == [x \in DOMAIN d \ {k} |-> d[x]]

\* d.copy() followed by update(u)
Overlay(d, u) ==
    [x \in DOMAIN d \cup DOMAIN u |-> IF x \in DOMAIN u THEN u[x] ELSE d[x]]

\* d.get(k): None when the key is missing
Get(d, k) == IF k \in DOMAIN d THEN d[k] ELSE NoneV

\* DEFAULT_SCHEMA.fields and DEFAULT_SCHEMA.required
SchemaFields == {"theme", "font_size"}
SchemaRequired == {"theme", "font_size"}

\* one field of DEFAULT_SCHEMA checked as ConfigSchema.validate checks it:
\* type, then min and max, then enum
FieldOK(f, v) ==
    IF f = "theme"
    THEN v.type = "str" /\ v.str \in {"light", "dark", "auto"}
    ELSE v.type = "int" /\ v.num >= 8 /\ v.num <= 72

\* value < field_spec["min"] raises TypeError for a str or None value
Uncomparable(f, v) == f = "font_size" /\ v.type \in {"str", "NoneType"}

\* ConfigSchema.validate(data): the offending fields, or a TypeError raised
\* by a comparison before the list is returned
validate(d) ==
    [crashed |-> \E f \in SchemaFields \cap DOMAIN d : Uncomparable(f, d[f]),
     errors |-> {f \in SchemaRequired : f \notin DOMAIN d}
                \cup {f \in SchemaFields \cap DOMAIN d : ~FieldOK(f, d[f])}]

\* _get_defaults()
_get_defaults ==
    Put(Put(EmptyRecord, "theme", StrV("dark")), "font_size", IntV(11))

\* ---- files ----
NoSum == [present |-> FALSE, of |-> EmptyRecord]

\* hashlib.sha256(json.dumps(calc_data, sort_keys=True)): the digest of the
\* canonical serialisation of the fields other than the checksum, taken to
\* be free of collisions
_calculate_checksum(d) == [present |-> TRUE, of |-> d]

NoFile == [kind |-> "absent", data |-> EmptyRecord, sum |-> NoSum, mtime |-> 0]

\* a file that storage.load cannot parse
Garbage(t) ==
    [kind |-> "garbage", data |-> EmptyRecord, sum |-> NoSum, mtime |-> t]

JsonFile(d, s, t) == [kind |-> "json", data |-> d, sum |-> s, mtime |-> t]

\* a file written before checksums were stored ("old format")
LegacyFile ==
    JsonFile(Put(Put(EmptyRecord, "theme", StrV("light")),
                 "font_size", IntV(12)), NoSum, 0)

\* storage.load(path) returns a record
Loads(f) == f.kind = "json"

\* _verify_integrity(data): a file without checksum passes
_verify_integrity(f) ==
    \/ ~f.sum.present
    \/ f.sum = _calculate_checksum(f.data)

\* ---- backups ----
RemoveAt(b, i) == SubSeq(b, 1, i - 1) \o SubSeq(b, i + 1, Len(b))

\* the position of the backup with the greatest mtime (equal mtimes mean
\* copies of the same write, so the choice among them does not matter)
NewestAt(b) ==
    CHOOSE i \in 1..Len(b) :
        \A j \in 1..Len(b) :
            \/ b[j].mtime < b[i].mtime
            \/ b[j].mtime = b[i].mtime /\ j <= i

OldestAt(b) ==
    CHOOSE i \in 1..Len(b) :
        \A j \in 1..Len(b) :
            \/ b[j].mtime > b[i].mtime
            \/ b[j].mtime = b[i].mtime /\ j >= i

RECURSIVE SortOldestFirst(_)
\* variant: reverse=True is missing
SortOldestFirst(b) ==
    IF b = <<>> THEN <<>>
    ELSE <<b[OldestAt(b)]>> \o SortOldestFirst(RemoveAt(b, OldestAt(b)))

RECURSIVE SortNewestFirst(_)
\* sorted(glob("config_backup_*"), key=mtime, reverse=True)
SortNewestFirst(b) ==
    IF b = <<>> THEN <<>>
    ELSE <<b[NewestAt(b)]>> \o SortNewestFirst(RemoveAt(b, NewestAt(b)))

RECURSIVE _cleanup_old_backups(_, _)
\* _cleanup_old_backups(keep): unlink the oldest while more than keep remain
_cleanup_old_backups(b, keep) ==
    IF Len(b) <= keep THEN b
    ELSE _cleanup_old_backups(RemoveAt(b, OldestAt(b)), keep)

\* _create_backup(): copy the live file, if there is one, into backups/
_create_backup(live, b) ==
    IF live.kind = "absent" THEN b
    ELSE _cleanup_old_backups(Append(b, live), 10)

RECURSIVE TryBackups(_)
\* the loop of _recover_from_corruption over the candidates
TryBackups(c) ==
    IF c = <<>> THEN [ok |-> FALSE, file |-> NoFile]
    ELSE IF Loads(Head(c)) /\ _verify_integrity(Head(c))
         THEN [ok |-> TRUE, file |-> Head(c)]
         ELSE TryBackups(Tail(c))

\* _recover_from_corruption(): the first of the three newest backups that
\* loads and verifies
_recover_from_corruption(b) ==
    LET sorted == SortNewestFirst(b)
    IN TryBackups(SubSeq(sorted, 1, Min(3, Len(sorted))))

\* ---- what the callers supply ----
SetInputs ==
    {<<"theme", StrV("light")>>, <<"theme", StrV("neon")>>,
     <<"font_size", IntV(12)>>, <<"font_size", StrV("big")>>,
     <<"key1", StrV("value1")>>, <<"key1", NoneV>>}

\* what transactions set: as in test_atomic_transactions, one value per key
TxInputs ==
    {<<"theme", StrV("neon")>>, <<"font_size", IntV(12)>>,
     <<"key1", StrV("value1")>>}

UpdateInputs ==
    {Put(Put(EmptyRecord, "theme", StrV("light")), "font_size", IntV(12)),
     Put(Put(EmptyRecord, "font_size", IntV(100)), "key1", StrV("value1")),
     Put(Put(EmptyRecord, "theme", StrV("auto")), "font_size", StrV("big"))}

\* parsed contents of the files given to import_config
ImportInputs ==
    {Put(EmptyRecord, "font_size", IntV(12)),
     Put(Put(Put(EmptyRecord, "theme", StrV("light")), "font_size", IntV(12)),
         "key1", StrV("value1")),
     Put(Put(EmptyRecord, "theme", StrV("neon")), "font_size", IntV(12))}

\* ConfigTransaction.changes as a map (a later set of a key replaces)
ChangesMap(c) ==
    [k \in {c[j].key : j \in 1..Len(c)} |->
        (CHOOSE e \in {c[j] : j \in 1..Len(c)} : e.key = k).value]

\* self.changes[key] = value keeps the position of a key already present
Buffer(c, k, v) ==
    IF \E j \in 1..Len(c) : c[j].key = k
    THEN [j \in 1..Len(c) |->
             IF c[j].key = k THEN [key |-> k, value |-> v] ELSE c[j]]
    ELSE Append(c, [key |-> k, value |-> v])

\* variant: rollback drops every key the transaction touched
rollback_drop(d, original) ==
    [x \in DOMAIN d \ DOMAIN original |-> d[x]]

\* ConfigTransaction.rollback(): _set_internal the original value of every
\* key, _delete_internal the keys whose original value was None
rollback(d, original) ==
    [x \in (DOMAIN d \cup {k \in DOMAIN original : original[k] # NoneV})
           \ {k \in DOMAIN original : original[k] = NoneV} |->
        IF x \in DOMAIN original THEN original[x] ELSE d[x]]

\* a file as _save writes it
Saved(d, t) == JsonFile(d, _calculate_checksum(d), t)

\* The directories a store is opened on.  Fresh: nothing there yet.  Legacy:
\* one file written before checksums were stored.  AgedMixed and
\* AgedGarbage: directories left by earlier runs in which the live file was
\* overwritten from outside between sets, so that _create_backup copied
\* unparseable files into backups/:
\*   AgedMixed    open; set font_size; set key1; overwrite; set theme
\*   AgedGarbage  open; set font_size; then three times overwrite, set
FreshDirectory == [live |-> NoFile, backups |-> <<>>, clock |-> 0]

LegacyDirectory == [live |-> LegacyFile, backups |-> <<>>, clock |-> 0]

AgedMixed ==
    LET d1 == Put(_get_defaults, "font_size", IntV(12))
        d2 == Put(d1, "key1", StrV("value1"))
        d3 == Put(d2, "theme", StrV("light"))
    IN [live |-> Saved(d3, 5),
        backups |-> <<Saved(_get_defaults, 1), Saved(d1, 2), Garbage(4)>>,
        clock |-> 5]

AgedGarbage ==
    LET d1 == Put(_get_defaults, "font_size", IntV(12))
    IN [live |-> Saved(d1, 8),
        backups |-> <<Saved(_get_defaults, 1), Garbage(3), Garbage(5),
                      Garbage(7)>>,
        clock |-> 8]

\* no write has returned yet; the record a write that returned left on disk
NothingWritten == [some |-> FALSE, data |-> EmptyRecord]
Written(d) == [some |-> TRUE, data |-> d]

CfgInit ==
    /\ cfg_mgr = "closed"
    /\ cfg_data = EmptyRecord
    /\ \E dir \in {FreshDirectory, LegacyDirectory, AgedMixed, AgedGarbage} :
          /\ cfg_live = dir.live
          /\ cfg_backups = dir.backups
          /\ cfg_clock = dir.clock
    /\ cfg_budget = MaxConfigOps
    /\ cfg_acked = NothingWritten
    /\ tx_state = "none"
    /\ tx_changes = <<>>
    /\ tx_original = EmptyRecord
    /\ tx_applied = 0
    /\ tx_entry_data = EmptyRecord
    /\ tx_entry_live = NoFile

\* no configuration store is in use
CfgQuiet ==
    /\ cfg_mgr = "closed"
    /\ cfg_data = EmptyRecord
    /\ cfg_live = NoFile
    /\ cfg_backups = <<>>
    /\ cfg_clock = 0
    /\ cfg_budget = 0
    /\ cfg_acked = NothingWritten
    /\ tx_state = "none"
    /\ tx_changes = <<>>
    /\ tx_original = EmptyRecord
    /\ tx_applied = 0
    /\ tx_entry_data = EmptyRecord
    /\ tx_entry_live = NoFile

\* _save() of record d: backup of the live file, checksum, write to a
\* temporary file and rename.  When the storage rejects writes (fails)
\* nothing on disk changes and _save raises ConfigError.
_save(d, fails) ==
    IF fails
    THEN UNCHANGED <<cfg_live, cfg_backups, cfg_clock, cfg_acked>>
    ELSE /\ cfg_backups' = _create_backup(cfg_live, cfg_backups)
         /\ cfg_live' = Saved(d, cfg_clock + 1)
         /\ cfg_clock' = cfg_clock + 1
         /\ cfg_acked' = Written(d)

Idle == cfg_mgr = "open" /\ tx_state = "none"

\* ConfigurationManager(config_dir): _load()
CfgOpen(fails) ==
    /\ cfg_mgr = "closed"
    /\ LET intact == Loads(cfg_live) /\ _verify_integrity(cfg_live)
           rec == _recover_from_corruption(cfg_backups)
       IN IF intact
          THEN \* the live file loads and verifies
               /\ ~fails
               /\ cfg_data' = cfg_live.data
               /\ cfg_mgr' = "open"
               /\ ev' = [type |-> "open", who |-> 0, raised |-> FALSE,
                         faulty |-> FALSE]
               /\ UNCHANGED <<cfg_live, cfg_backups, cfg_clock, cfg_acked>>
          ELSE IF cfg_live.kind = "absent" /\ ~fails
          THEN \* no live file: defaults, saved
               /\ cfg_data' = _get_defaults
               /\ cfg_mgr' = "open"
               /\ _save(_get_defaults, FALSE)
               /\ ev' = [type |-> "open", who |-> 0, raised |-> FALSE,
                         faulty |-> FALSE]
          ELSE IF rec.ok /\ ~fails
          THEN \* recovery: the backup becomes the record and the live file
               /\ cfg_data' = rec.file.data
               /\ cfg_live' = rec.file
               /\ cfg_acked' = Written(rec.file.data)
               /\ cfg_mgr' = "open"
               /\ ev' = [type |-> "open", who |-> 0, raised |-> FALSE,
                         faulty |-> FALSE]
               /\ UNCHANGED <<cfg_backups, cfg_clock>>
          ELSE IF ~fails
          THEN \* recovery failed: defaults, saved over the live file
               /\ cfg_data' = _get_defaults
               /\ cfg_mgr' = "open"
               /\ _save(_get_defaults, FALSE)
               /\ ev' = [type |-> "open", who |-> 0, raised |-> FALSE,
                         faulty |-> FALSE]
          ELSE \* no write goes through: every copy fails, the final
               \* _save raises ConfigError out of the constructor
               /\ ev' = [type |-> "open", who |-> 0, raised |-> TRUE,
                         faulty |-> TRUE]
               /\ UNCHANGED <<cfg_mgr, cfg_data, cfg_live, cfg_backups,
                              cfg_clock, cfg_acked>>
    /\ UNCHANGED <<cfg_budget, txVars>>
    /\ UNCHANGED notCfg

\* the process ends; the directory stays
CfgClose ==
    /\ Idle
    /\ cfg_mgr' = "closed"
    /\ cfg_data' = EmptyRecord
    /\ ev' = [type |-> "close", who |-> 0]
    /\ UNCHANGED <<cfg_live, cfg_backups, cfg_clock, cfg_acked, cfg_budget, txVars>>
    /\ UNCHANGED notCfg

\* something outside the store overwrites the live file: with bytes that do
\* not parse, or with a changed field under the old checksum
CfgCorrupt(how) ==
    /\ tx_state = "none"
    /\ cfg_live.kind # "absent"
    /\ cfg_budget > 0
    /\ cfg_budget' = cfg_budget - 1
    /\ cfg_clock' = cfg_clock + 1
    /\ \/ /\ how = "garbage"
          /\ cfg_live' = Garbage(cfg_clock + 1)
       \/ /\ how = "tampered"
          /\ cfg_live.kind = "json"
          /\ cfg_live.sum.present
          /\ cfg_live' = JsonFile(Put(cfg_live.data, "key1", StrV("tampered")),
                                  cfg_live.sum, cfg_clock + 1)
    /\ ev' = [type |-> "corrupt", who |-> 0]
    /\ UNCHANGED <<cfg_mgr, cfg_data, cfg_backups, cfg_acked, txVars>>
    /\ UNCHANGED notCfg

\* set(key, value)
CfgSet(key, value, fails) ==
    /\ Idle
    /\ cfg_budget > 0
    /\ cfg_budget' = cfg_budget - 1
    /\ LET merged == Put(cfg_data, key, value)
           v == validate(merged)
       IN IF key \in SchemaFields /\ v.crashed
          THEN /\ ev' = [type |-> "set", who |-> 0, key |-> key,
                         value |-> value, outcome |-> "TypeError"]
               /\ ~fails
               /\ UNCHANGED <<cfg_data, cfg_live, cfg_backups, cfg_clock, cfg_acked>>
          ELSE IF key \in SchemaFields /\ v.errors # {}
          THEN /\ ev' = [type |-> "set", who |-> 0, key |-> key,
                         value |-> value,
                         outcome |-> "SchemaValidationError"]
               /\ ~fails
               /\ UNCHANGED <<cfg_data, cfg_live, cfg_backups, cfg_clock, cfg_acked>>
          ELSE /\ cfg_data' = merged
               /\ _save(merged, fails)
               /\ ev' = [type |-> "set", who |-> 0, key |-> key,
                         value |-> value,
                         outcome |-> IF fails THEN "ConfigError" ELSE "ok"]
    /\ UNCHANGED <<cfg_mgr, txVars>>
    /\ UNCHANGED notCfg

\* update(updates)
CfgUpdate(updates, fails) ==
    /\ Idle
    /\ cfg_budget > 0
    /\ cfg_budget' = cfg_budget - 1
    /\ LET merged == Overlay(cfg_data, updates)
           v == validate(merged)
       IN IF v.crashed
          THEN /\ ev' = [type |-> "update", who |-> 0, updates |-> updates,
                         outcome |-> "TypeError"]
               /\ ~fails
               /\ UNCHANGED <<cfg_data, cfg_live, cfg_backups, cfg_clock, cfg_acked>>
          ELSE IF v.errors # {}
          THEN /\ ev' = [type |-> "update", who |-> 0, updates |-> updates,
                         outcome |-> "SchemaValidationError"]
               /\ ~fails
               /\ UNCHANGED <<cfg_data, cfg_live, cfg_backups, cfg_clock, cfg_acked>>
          ELSE /\ cfg_data' = merged
               /\ _save(merged, fails)
               /\ ev' = [type |-> "update", who |-> 0, updates |-> updates,
                         outcome |-> IF fails THEN "ConfigError" ELSE "ok"]
    /\ UNCHANGED <<cfg_mgr, txVars>>
    /\ UNCHANGED notCfg

\* import_config(path, merge), the file at path holding import_data
CfgImport(import_data, merge, fails) ==
    /\ Idle
    /\ cfg_budget > 0
    /\ cfg_budget' = cfg_budget - 1
    /\ LET result == IF merge THEN Overlay(cfg_data, import_data)
                     ELSE import_data
           v == validate(result)
       IN IF v.crashed
          THEN /\ ev' = [type |-> "import", who |-> 0,
                         import_data |-> import_data, merge |-> merge,
                         outcome |-> "TypeError"]
               /\ ~fails
               /\ UNCHANGED <<cfg_data, cfg_live, cfg_backups, cfg_clock, cfg_acked>>
          ELSE IF v.errors # {}
          THEN /\ ev' = [type |-> "import", who |-> 0,
                         import_data |-> import_data, merge |-> merge,
                         outcome |-> "SchemaValidationError"]
               /\ ~fails
               /\ UNCHANGED <<cfg_data, cfg_live, cfg_backups, cfg_clock, cfg_acked>>
          ELSE /\ cfg_data' = result
               /\ _save(result, fails)
               /\ ev' = [type |-> "import", who |-> 0,
                         import_data |-> import_data, merge |-> merge,
                         outcome |-> IF fails THEN "ConfigError" ELSE "ok"]
    /\ UNCHANGED <<cfg_mgr, txVars>>
    /\ UNCHANGED notCfg

\* reset()
CfgReset(fails) ==
    /\ Idle
    /\ cfg_budget > 0
    /\ cfg_budget' = cfg_budget - 1
    /\ cfg_data' = _get_defaults
    /\ _save(_get_defaults, fails)
    /\ ev' = [type |-> "reset", who |-> 0,
              outcome |-> IF fails THEN "ConfigError" ELSE "ok"]
    /\ UNCHANGED <<cfg_mgr, txVars>>
    /\ UNCHANGED notCfg

\* with manager.transaction() as tx: the scope is entered
TxBegin ==
    /\ Idle
    /\ cfg_budget > 0
    /\ cfg_budget' = cfg_budget - 1
    /\ tx_state' = "active"
    /\ tx_changes' = <<>>
    /\ tx_original' = EmptyRecord
    /\ tx_applied' = 0
    /\ tx_entry_data' = cfg_data
    /\ tx_entry_live' = cfg_live
    /\ ev' = [type |-> "tx_begin", who |-> 0]
    /\ UNCHANGED <<cfg_mgr, cfg_data, cfg_live, cfg_backups, cfg_clock, cfg_acked>>
    /\ UNCHANGED notCfg

\* tx.set(key, value)
TxSet(key, value) ==
    /\ tx_state = "active"
    /\ \/ Len(tx_changes) < MaxTxKeys
       \/ key \in DOMAIN tx_original
    /\ tx_original' = IF key \in DOMAIN tx_original THEN tx_original
                      ELSE Put(tx_original, key, Get(cfg_data, key))
    /\ tx_changes' = Buffer(tx_changes, key, value)
    /\ ev' = [type |-> "tx_set", who |-> 0]
    /\ UNCHANGED <<cfg_mgr, cfg_data, cfg_live, cfg_backups, cfg_clock, cfg_acked,
                   cfg_budget, tx_state, tx_applied,
                   tx_entry_data, tx_entry_live>>
    /\ UNCHANGED notCfg

\* an exception leaves the scope before commit: transaction.rollback()
TxRaise ==
    /\ tx_state = "active"
    /\ cfg_data' = rollback(cfg_data, tx_original)
    /\ tx_state' = "none"
    /\ tx_changes' = <<>>
    /\ tx_original' = EmptyRecord
    /\ ev' = [type |-> "tx_raise", who |-> 0, buffered |-> Len(tx_changes)]
    /\ UNCHANGED <<cfg_mgr, cfg_live, cfg_backups, cfg_clock, cfg_acked, cfg_budget, tx_applied, tx_entry_data, tx_entry_live>>
    /\ UNCHANGED notCfg

\* tx.commit() is called, explicitly or by the normal end of the scope
TxCommit ==
    /\ tx_state = "active"
    /\ tx_state' = "committing"
    /\ ev' = [type |-> "tx_commit_begin", who |-> 0]
    /\ UNCHANGED <<cfg_mgr, cfg_data, cfg_live, cfg_backups, cfg_clock, cfg_acked,
                   cfg_budget, tx_changes, tx_original,
                   tx_applied, tx_entry_data, tx_entry_live>>
    /\ UNCHANGED notCfg

\* commit: self.config_manager._set_internal(key, value) for the next change
TxApply ==
    /\ tx_state = "committing"
    /\ tx_applied < Len(tx_changes)
    /\ cfg_data' = Put(cfg_data, tx_changes[tx_applied + 1].key,
                       tx_changes[tx_applied + 1].value)
    /\ tx_applied' = tx_applied + 1
    /\ ev' = [type |-> "tx_apply", who |-> 0]
    /\ UNCHANGED <<cfg_mgr, cfg_live, cfg_backups, cfg_clock, cfg_acked, cfg_budget, tx_state, tx_changes, tx_original,
                   tx_entry_data, tx_entry_live>>
    /\ UNCHANGED notCfg

\* commit: self.config_manager._save(); when it raises, rollback() and
\* ConfigError
TxSave(fails) ==
    /\ tx_state = "committing"
    /\ tx_applied = Len(tx_changes)
    /\ cfg_data' = IF fails THEN rollback(cfg_data, tx_original) ELSE cfg_data
    /\ _save(cfg_data, fails)
    /\ tx_state' = "none"
    /\ tx_changes' = <<>>
    /\ tx_original' = EmptyRecord
    /\ tx_applied' = 0
    /\ ev' = [type |-> "tx_commit", who |-> 0,
              changes |-> ChangesMap(tx_changes),
              outcome |-> IF fails THEN "ConfigError" ELSE "ok"]
    /\ UNCHANGED <<cfg_mgr, cfg_budget, tx_entry_data,
                   tx_entry_live>>
    /\ UNCHANGED notCfg

\* another thread calls get_all()
ReaderGetAll ==
    /\ cfg_mgr = "open"
    /\ ev' = [type |-> "get_all", who |-> 1, result |-> cfg_data]
    /\ UNCHANGED cfgVars
    /\ UNCHANGED notCfg

(***************************************************************************)
(* ConfigurationManager.export (config_manager.py 789-811) on two stores.  *)
(* _data holds the reserved keys as ordinary entries: "_schema_version"    *)
(* from construction or migration, "_checksum" once the record was loaded  *)
(* from a file that _save wrote.                                           *)
(***************************************************************************)
Stores == {1, 2}

\* DEFAULT_SCHEMA: the fields declared with "encrypted": True
SensitiveFields == {"openai_api_key", "anthropic_api_key", "google_api_key"}

\* the internal fields export removes
ReservedKeys == {"_checksum", "_schema_version"}

\* dict.pop(k, None) for every k of a set of keys
PopAll(d, keys) == [x \in DOMAIN d \ keys |-> d[x]]

\* export that leaves the encrypted fields in whatever include_sensitive is
export_data_all(d, include_sensitive) == PopAll(d, ReservedKeys)

\* export: the mapping handed to the storage adapter
export_data(d, include_sensitive) ==
    IF include_sensitive
    THEN PopAll(d, ReservedKeys)
    ELSE PopAll(PopAll(d, ReservedKeys), SensitiveFields)

\* records _load leaves in _data: defaults or a file written by _save, with
\* an API key entered or not
ThemeValues == {"dark", "light"}
ApiKeyValues == {"", "sk-one", "sk-two"}
ChecksumValues == {"sha-one", "sha-two"}

LoadedRecord(theme, api_key, sum) ==
    LET base == Put(Put(Put(EmptyRecord, "theme", StrV(theme)),
                        "openai_api_key", StrV(api_key)),
                    "_schema_version", StrV("2.0.0"))
    IN  IF sum = "" THEN base ELSE Put(base, "_checksum", StrV(sum))

LoadedRecords ==
    {LoadedRecord(th, k, s) : th \in ThemeValues, k \in ApiKeyValues,
                              s \in ChecksumValues \cup {""}}

NoSnapshot == [written |-> FALSE, include_sensitive |-> FALSE,
               of |-> EmptyRecord, data |-> EmptyRecord]

ExpInit ==
    /\ exp_data \in [Stores -> LoadedRecords]
    /\ exp_snapshot = [s \in Stores |-> NoSnapshot]
    /\ exp_sets = 0

ExpQuiet ==
    /\ exp_data = [s \in Stores |-> EmptyRecord]
    /\ exp_snapshot = [s \in Stores |-> NoSnapshot]
    /\ exp_sets = 0

\* set(key, value) on one store, with a value the schema accepts
ExpSet(s, key, value) ==
    /\ exp_sets < MaxExportSets
    /\ exp_sets' = exp_sets + 1
    /\ exp_data' = [exp_data EXCEPT ![s] = Put(@, key, value)]
    /\ ev' = [type |-> "set", who |-> s]
    /\ UNCHANGED exp_snapshot
    /\ UNCHANGED notExp

\* export(path, include_sensitive) on one store
Export(s, include_sensitive) ==
    /\ exp_snapshot' = [exp_snapshot EXCEPT ![s] =
          [written |-> TRUE, include_sensitive |-> include_sensitive,
           of |-> exp_data[s],
           data |-> export_data(exp_data[s], include_sensitive)]]
    /\ ev' = [type |-> "export", who |-> s]
    /\ UNCHANGED <<exp_data, exp_sets>>
    /\ UNCHANGED notExp

(***************************************************************************)
(* TranslatorEngine (src/src/translator/translator_engine.py 44-307) and   *)
(* OfflineTranslator.translate (offline_translator.py 180-227).            *)
(* Source texts are numbered; a translation is a record saying what it is: *)
(* the source text itself, the offline engine's rewrite of it, or one of   *)
(* the answers an AI provider may give.  Confidence is in hundredths.      *)
(***************************************************************************)
Codes == 1..MaxCodes

SUPPORTED_LANGUAGES ==
    <<"Python", "JavaScript", "TypeScript", "Java", "Kotlin", "Swift", "C++",
      "Go", "Rust", "Ruby">>

Supported(lang) == \E j \in DOMAIN SUPPORTED_LANGUAGES :
                      SUPPORTED_LANGUAGES[j] = lang

\* the simple cache limit of translate_async
CacheLimit == 100
\* Settings default of "max_cache_size"
DefaultMaxCacheSize == 100

\* hash(code): not injective, source texts 1 and 2 collide
hash(code) == (code + 1) \div 2

\* f"{source_lang}:{target_lang}:{hash(code)}"
cache_key(source_lang, target_lang, code) ==
    [s |-> source_lang, t |-> target_lang, h |-> hash(code)]

NoKey == [s |-> "", t |-> "", h |-> -1]

SourceText(code) == [kind |-> "source", code |-> code, s |-> "", t |-> "",
                     n |-> 0]
AIText(code, s, t, n) == [kind |-> "ai", code |-> code, s |-> s, t |-> t,
                          n |-> n]
NoText == [kind |-> "none", code |-> 0, s |-> "", t |-> "", n |-> 0]

\* OfflineTranslator.translate
OfflineTranslate(code, source_lang, target_lang) ==
    IF source_lang = target_lang
    THEN SourceText(code)
    ELSE [kind |-> "offline", code |-> code, s |-> source_lang,
          t |-> target_lang, n |-> 0]

\* the confidence each _translate_<provider> returns
Confidence(provider) ==
    CASE provider = "openai" -> 95
      [] provider = "anthropic" -> 97
      [] provider = "google" -> 93
      [] OTHER -> 70

\* the confidence of a cache hit
HitConfidence == 100

\* _select_best_provider
ProviderPriority == <<"anthropic", "openai", "google", "offline">>

_select_best_provider(providers) ==
    IF \E j \in 1..4 : ProviderPriority[j] \in providers
    THEN ProviderPriority[CHOOSE j \in 1..4 :
            /\ ProviderPriority[j] \in providers
            /\ \A k \in 1..(j - 1) : ProviderPriority[k] \notin providers]
    ELSE "offline"

Keys(cache) == {cache[j].key : j \in DOMAIN cache}
IndexOf(cache, key) == CHOOSE j \in DOMAIN cache : cache[j].key = key

\* a lookup that reads the oldest entry
Lookup_first(cache, key) == cache[1].text

\* self._cache[cache_key]
Lookup(cache, key) == cache[IndexOf(cache, key)].text

\* self._cache[cache_key] = text, at time used
Assign(cache, key, text, used) ==
    IF key \in Keys(cache)
    THEN [cache EXCEPT ![IndexOf(cache, key)] =
             [key |-> key, text |-> text, used |-> used]]
    ELSE Append(cache, [key |-> key, text |-> text, used |-> used])

\* if len(self._cache) > 100: self._cache.pop(next(iter(self._cache)))
Evicted(cache) == IF Len(cache) > CacheLimit THEN cache[1].key ELSE NoKey
Evict(cache) == IF Len(cache) > CacheLimit THEN Tail(cache) ELSE cache

\* history: the entry under key was used at time used
Touch(cache, key, used) ==
    [cache EXCEPT ![IndexOf(cache, key)].used = used]

\* the fallback that also retries the offline provider
FallsBack_always(provider) == TRUE

\* if provider != TranslationProvider.OFFLINE
FallsBack(provider) == provider # "offline"

\* a cache that has been in use: the first source text translated first,
\* then CacheLimit - 1 other texts
FillerKey(j) == [s |-> "Python", t |-> "JavaScript", h |-> MaxCodes + j]
FillerText(j) == AIText(MaxCodes + j, "Python", "JavaScript", 1)

AgedCache ==
    [j \in 1..CacheLimit |->
        IF j = 1
        THEN [key |-> cache_key("Python", "JavaScript", 1),
              text |-> AIText(1, "Python", "JavaScript", 1), used |-> 0]
        ELSE [key |-> FillerKey(j), text |-> FillerText(j), used |-> 0]]

\* the sets of providers _init_providers can leave, by the API keys set
ProviderSets == {{"offline"}, {"anthropic", "openai", "offline"}}

NoStored == [k \in {} |-> NoText]

TrInit ==
    /\ tr_cache \in {<<>>, AgedCache}
    /\ tr_providers \in ProviderSets
    /\ tr_max_cache_size \in {DefaultMaxCacheSize, ConfiguredCacheSize}
    /\ tr_awaiting = EmptyBag
    /\ tr_calls = 0
    /\ tr_clock = 0
    /\ tr_stored = NoStored

TrQuiet ==
    /\ tr_cache = <<>>
    /\ tr_providers = {"offline"}
    /\ tr_max_cache_size = DefaultMaxCacheSize
    /\ tr_awaiting = EmptyBag
    /\ tr_calls = 0
    /\ tr_clock = 0
    /\ tr_stored = NoStored

\* provider given, or None: _select_best_provider
Chosen(provider) ==
    IF provider = "none" THEN _select_best_provider(tr_providers)
    ELSE provider

Request(code, source_lang, target_lang, chosen) ==
    [code |-> code, source_lang |-> source_lang, target_lang |-> target_lang,
     chosen |-> chosen]

ReqKey(req) == cache_key(req.source_lang, req.target_lang, req.code)

\* what a finished call leaves in ev
Done(req, hit, invoked, failed, outcome, text, confidence, evicted) ==
    [type |-> "translate", who |-> 0, req |-> req, hit |-> hit,
     invoked |-> invoked, failed |-> failed, outcome |-> outcome,
     text |-> text, confidence |-> confidence, evicted |-> evicted]

Starts ==
    /\ tr_calls < MaxTranslates
    /\ tr_calls' = tr_calls + 1

\* lines 119-122: the key is in the cache
TranslateHit(code, source_lang, target_lang, provider) ==
    LET key == cache_key(source_lang, target_lang, code)
        req == Request(code, source_lang, target_lang, "")
    IN  /\ Starts
        /\ key \in Keys(tr_cache)
        /\ ev' = Done(req, TRUE, <<>>, FALSE, "returned",
                      Lookup(tr_cache, key), HitConfidence, NoKey)
        /\ tr_clock' = tr_clock + 1
        /\ tr_cache' = Touch(tr_cache, key, tr_clock')
        /\ UNCHANGED <<tr_providers, tr_max_cache_size, tr_awaiting,
                       tr_stored>>
        /\ UNCHANGED notTr

\* lines 124-128: ValueError for an unsupported language
TranslateInvalid(code, source_lang, target_lang) ==
    LET key == cache_key(source_lang, target_lang, code)
        req == Request(code, source_lang, target_lang, "")
    IN  /\ Starts
        /\ key \notin Keys(tr_cache)
        /\ ~(Supported(source_lang) /\ Supported(target_lang))
        /\ ev' = Done(req, FALSE, <<>>, FALSE, "raised", NoText, 0, NoKey)
        /\ UNCHANGED <<tr_cache, tr_providers, tr_max_cache_size,
                       tr_awaiting, tr_clock, tr_stored>>
        /\ UNCHANGED notTr

\* lines 134-154 once the chosen provider has answered (ok, text), failed,
\* or could not be reached at all; invoked lists the providers called so far
Finish(req, invoked, ok, text, offlineFails) ==
    LET key == ReqKey(req)
        stored == Assign(tr_cache, key, text, tr_clock + 1)
        offline == OfflineTranslate(req.code, req.source_lang,
                                    req.target_lang)
    IN  IF ok
        THEN /\ tr_cache' = Evict(stored)
             /\ tr_clock' = tr_clock + 1
             /\ tr_stored' = Put(tr_stored, key, text)
             /\ ev' = Done(req, FALSE, invoked, FALSE, "returned", text,
                           Confidence(req.chosen), Evicted(stored))
        ELSE /\ UNCHANGED <<tr_cache, tr_clock, tr_stored>>
             /\ IF FallsBack(req.chosen)
                THEN ev' = Done(req, FALSE, Append(invoked, "offline"),
                                TRUE,
                                IF offlineFails THEN "raised" ELSE "returned",
                                IF offlineFails THEN NoText ELSE offline,
                                IF offlineFails THEN 0
                                ELSE Confidence("offline"),
                                NoKey)
                ELSE ev' = Done(req, FALSE, invoked, TRUE, "raised",
                                NoText, 0, NoKey)

Misses(code, source_lang, target_lang) ==
    /\ cache_key(source_lang, target_lang, code) \notin Keys(tr_cache)
    /\ Supported(source_lang)
    /\ Supported(target_lang)

\* the chosen provider is the offline one: _translate_offline runs inside
\* the coroutine, without an await
TranslateOffline(code, source_lang, target_lang, provider, fails) ==
    LET req == Request(code, source_lang, target_lang, Chosen(provider))
    IN  /\ Starts
        /\ Misses(code, source_lang, target_lang)
        /\ req.chosen = "offline"
        /\ Finish(req, <<"offline">>, ~fails,
                  OfflineTranslate(code, source_lang, target_lang), fails)
        /\ UNCHANGED <<tr_providers, tr_max_cache_size, tr_awaiting>>
        /\ UNCHANGED notTr

\* the chosen provider was never initialised: self.providers[...] raises
\* KeyError before any request is made
TranslateUnavailable(code, source_lang, target_lang, provider, fails) ==
    LET req == Request(code, source_lang, target_lang, Chosen(provider))
    IN  /\ Starts
        /\ Misses(code, source_lang, target_lang)
        /\ req.chosen # "offline"
        /\ req.chosen \notin tr_providers
        /\ Finish(req, <<>>, FALSE, NoText, fails)
        /\ UNCHANGED <<tr_providers, tr_max_cache_size, tr_awaiting>>
        /\ UNCHANGED notTr

\* the chosen AI provider is called: await asyncio.to_thread(...)
TranslateAwait(code, source_lang, target_lang, provider) ==
    LET req == Request(code, source_lang, target_lang, Chosen(provider))
    IN  /\ Starts
        /\ Misses(code, source_lang, target_lang)
        /\ req.chosen # "offline"
        /\ req.chosen \in tr_providers
        /\ tr_awaiting' = tr_awaiting (+) SetToBag({req})
        /\ ev' = [type |-> "await", who |-> 0]
        /\ UNCHANGED <<tr_cache, tr_providers, tr_max_cache_size, tr_clock,
                       tr_stored>>
        /\ UNCHANGED notTr

\* the AI provider answers a suspended call with its n-th possible text
ProviderAnswers(req, n) ==
    /\ BagIn(req, tr_awaiting)
    /\ Finish(req, <<req.chosen>>, TRUE,
              AIText(req.code, req.source_lang, req.target_lang, n), FALSE)
    /\ tr_awaiting' = tr_awaiting (-) SetToBag({req})
    /\ UNCHANGED <<tr_providers, tr_max_cache_size, tr_calls>>
    /\ UNCHANGED notTr

\* the AI provider raises; the except clause falls back to offline
ProviderRaises(req, offlineFails) ==
    /\ BagIn(req, tr_awaiting)
    /\ Finish(req, <<req.chosen>>, FALSE, NoText, offlineFails)
    /\ tr_awaiting' = tr_awaiting (-) SetToBag({req})
    /\ UNCHANGED <<tr_providers, tr_max_cache_size, tr_calls>>
    /\ UNCHANGED notTr

(***************************************************************************)
(* LoadBalancer (provider_framework.py 522-569), strategy "round_robin".   *)
(* Instances are named by their position in LoadBalancer.providers.        *)
(***************************************************************************)
Pool == 1..PoolSize
Selectors == 1..NumSelectors
Statuses == {"healthy", "degraded", "unhealthy"}

\* [p for p in self.providers if p.get_status() != UNHEALTHY]
healthy_providers(status) ==
    SelectSeq([j \in Pool |-> j], LAMBDA j : status[j] # "unhealthy")

\* a lock that never makes a thread wait
CanLock_always == TRUE

\* with self._lock: the lock is free
CanLock == lb_lock = 0

\* providers[self._index % len(providers)]
Pick(providers, index) == providers[(index % Len(providers)) + 1]

\* the pool as the balancer is given it: every instance in service, or
\* none
LBInit ==
    /\ lb_status \in [Pool -> {"healthy", "degraded"}]
                     \cup {[j \in Pool |-> "unhealthy"]}
    /\ lb_index = 0
    /\ lb_lock = 0
    /\ lb_pc = [t \in Selectors |-> "idle"]
    /\ lb_healthy = [t \in Selectors |-> <<>>]
    /\ lb_read = [t \in Selectors |-> 0]
    /\ lb_calls = 0
    /\ lb_changes = 0
    /\ lb_picks = <<>>
    /\ lb_clean = \A j \in Pool : lb_status[j] # "unhealthy"

LBQuiet ==
    /\ lb_status = [j \in Pool |-> "healthy"]
    /\ lb_index = 0
    /\ lb_lock = 0
    /\ lb_pc = [t \in Selectors |-> "idle"]
    /\ lb_healthy = [t \in Selectors |-> <<>>]
    /\ lb_read = [t \in Selectors |-> 0]
    /\ lb_calls = 0
    /\ lb_changes = 0
    /\ lb_picks = <<>>
    /\ lb_clean = TRUE

\* select_provider: no instance passes the filter, None is returned
SelectNone(t) ==
    /\ lb_pc[t] = "idle"
    /\ lb_calls < MaxSelects
    /\ healthy_providers(lb_status) = <<>>
    /\ lb_calls' = lb_calls + 1
    /\ ev' = [type |-> "select", who |-> t, picked |-> 0]
    /\ UNCHANGED <<lb_status, lb_index, lb_lock, lb_pc, lb_healthy, lb_read,
                   lb_changes, lb_picks, lb_clean>>
    /\ UNCHANGED notLB

\* select_provider: the filter leaves a list, _round_robin is entered
SelectFilter(t) ==
    /\ lb_pc[t] = "idle"
    /\ lb_calls < MaxSelects
    /\ healthy_providers(lb_status) # <<>>
    /\ lb_calls' = lb_calls + 1
    /\ lb_healthy' = [lb_healthy EXCEPT ![t] = healthy_providers(lb_status)]
    /\ lb_pc' = [lb_pc EXCEPT ![t] = "filtered"]
    /\ ev' = [type |-> "filter", who |-> t, picked |-> 0]
    /\ UNCHANGED <<lb_status, lb_index, lb_lock, lb_read, lb_changes,
                   lb_picks, lb_clean>>
    /\ UNCHANGED notLB

\* _round_robin: the lock is taken and self._index is read
RoundRobinEnter(t) ==
    /\ lb_pc[t] = "filtered"
    /\ CanLock
    /\ lb_lock' = t
    /\ lb_read' = [lb_read EXCEPT ![t] = lb_index]
    /\ lb_pc' = [lb_pc EXCEPT ![t] = "locked"]
    /\ ev' = [type |-> "lock", who |-> t, picked |-> 0]
    /\ UNCHANGED <<lb_status, lb_index, lb_healthy, lb_calls, lb_changes,
                   lb_picks, lb_clean>>
    /\ UNCHANGED notLB

\* _round_robin: self._index += 1, the lock is released, the instance is
\* returned
RoundRobinReturn(t) ==
    LET picked == Pick(lb_healthy[t], lb_read[t])
    IN  /\ lb_pc[t] = "locked"
        /\ lb_index' = lb_index + 1
        /\ lb_lock' = 0
        /\ lb_pc' = [lb_pc EXCEPT ![t] = "idle"]
        /\ lb_healthy' = [lb_healthy EXCEPT ![t] = <<>>]
        /\ lb_read' = [lb_read EXCEPT ![t] = 0]
        /\ lb_picks' = Append(lb_picks, [k |-> lb_read[t], pos |-> picked])
        /\ ev' = [type |-> "select", who |-> t, picked |-> picked]
        /\ UNCHANGED <<lb_status, lb_calls, lb_changes, lb_clean>>
        /\ UNCHANGED notLB

\* a health probe of the instance at position j sets its status
StatusChange(j, s) ==
    /\ lb_changes < MaxStatusChanges
    /\ lb_status[j] # s
    /\ lb_changes' = lb_changes + 1
    /\ lb_status' = [lb_status EXCEPT ![j] = s]
    /\ lb_clean' = (lb_clean /\ s # "unhealthy")
    /\ ev' = [type |-> "probe", who |-> j, picked |-> 0]
    /\ UNCHANGED <<lb_index, lb_lock, lb_pc, lb_healthy, lb_read, lb_calls,
                   lb_picks>>
    /\ UNCHANGED notLB

(***************************************************************************)
(* ProviderRegistry (provider_framework.py 373-455) and the health         *)
(* monitoring of BaseProvider (340-362).  create_provider and shutdown are *)
(* coroutines on one event loop: they interleave at their awaits.          *)
(***************************************************************************)
RegNames == {"openai", "offline"}
InstanceIds == 1..MaxCreates

NoShutdown == [active |-> FALSE, pos |-> 0, size |-> 0]

RegInit ==
    /\ reg_instances = <<>>
    /\ reg_pending = {}
    /\ reg_tasks = {}
    /\ reg_status = [i \in InstanceIds |-> "unknown"]
    /\ reg_sd = NoShutdown
    /\ reg_created = 0
    /\ reg_shutdowns = 0

RegQuiet == RegInit

\* self.provider_instances[name] = provider
SetInstance(instances, name, id) ==
    IF \E j \in DOMAIN instances : instances[j].name = name
    THEN [j \in DOMAIN instances |->
             IF instances[j].name = name THEN [name |-> name, id |-> id]
             ELSE instances[j]]
    ELSE Append(instances, [name |-> name, id |-> id])

\* create_provider: the instance is constructed, initialize() is awaited
CreateBegin(name) ==
    /\ reg_created < MaxCreates
    /\ reg_created' = reg_created + 1
    /\ reg_pending' = reg_pending \cup {[name |-> name, id |-> reg_created']}
    /\ ev' = [type |-> "construct", who |-> reg_created', completed |-> FALSE]
    /\ UNCHANGED <<reg_instances, reg_tasks, reg_status, reg_sd,
                   reg_shutdowns>>
    /\ UNCHANGED notReg

\* create_provider: initialize() returned; the instance is stored under its
\* name and start_health_monitoring creates its monitor task
CreateDone(e) ==
    /\ e \in reg_pending
    /\ reg_pending' = reg_pending \ {e}
    /\ reg_instances' = SetInstance(reg_instances, e.name, e.id)
    /\ reg_tasks' = reg_tasks \cup {e.id}
    /\ ev' = [type |-> "create", who |-> e.id, completed |-> TRUE]
    /\ UNCHANGED <<reg_status, reg_sd, reg_created, reg_shutdowns>>
    /\ UNCHANGED notReg

\* create_provider: initialize() raised; nothing is stored
CreateFail(e) ==
    /\ e \in reg_pending
    /\ reg_pending' = reg_pending \ {e}
    /\ ev' = [type |-> "create", who |-> e.id, completed |-> FALSE]
    /\ UNCHANGED <<reg_instances, reg_tasks, reg_status, reg_sd, reg_created,
                   reg_shutdowns>>
    /\ UNCHANGED notReg

\* monitor(): the health check of a running task sets the status
MonitorProbe(i, s) ==
    /\ i \in reg_tasks
    /\ reg_status[i] # s
    /\ reg_status' = [reg_status EXCEPT ![i] = s]
    /\ ev' = [type |-> "probe", who |-> i, completed |-> TRUE]
    /\ UNCHANGED <<reg_instances, reg_pending, reg_tasks, reg_sd, reg_created,
                   reg_shutdowns>>
    /\ UNCHANGED notReg

\* stop_health_monitoring of the instance at place pos: its task is
\* cancelled and awaited
StopAt(pos) ==
    /\ reg_tasks' = reg_tasks \ {reg_instances[pos].id}
    /\ UNCHANGED reg_instances

\* self.provider_instances.clear()
Clear ==
    /\ reg_instances' = <<>>
    /\ UNCHANGED reg_tasks

\* shutdown is called: with an empty map it clears and returns, otherwise
\* it stops the first instance and waits for its task to end
ShutdownBegin ==
    /\ ~reg_sd.active
    /\ reg_shutdowns < MaxShutdowns
    /\ reg_shutdowns' = reg_shutdowns + 1
    /\ IF reg_instances = <<>>
       THEN /\ Clear
            /\ reg_sd' = NoShutdown
            /\ ev' = [type |-> "shutdown", who |-> 0, completed |-> TRUE]
       ELSE /\ StopAt(1)
            /\ reg_sd' = [active |-> TRUE, pos |-> 2,
                          size |-> Len(reg_instances)]
            /\ ev' = [type |-> "stop", who |-> reg_instances[1].id,
                      completed |-> FALSE]
    /\ UNCHANGED <<reg_pending, reg_status, reg_created>>
    /\ UNCHANGED notReg

\* shutdown resumes: the dict iterator raises RuntimeError if the map
\* changed size meanwhile, yields the next instance to stop, or is
\* exhausted, and then the map is cleared
ShutdownResume ==
    /\ reg_sd.active
    /\ IF Len(reg_instances) # reg_sd.size
       THEN /\ UNCHANGED <<reg_instances, reg_tasks>>
            /\ reg_sd' = NoShutdown
            /\ ev' = [type |-> "shutdown", who |-> 0, completed |-> FALSE]
       ELSE IF reg_sd.pos <= Len(reg_instances)
       THEN /\ StopAt(reg_sd.pos)
            /\ reg_sd' = [reg_sd EXCEPT !.pos = @ + 1]
            /\ ev' = [type |-> "stop", who |-> reg_instances[reg_sd.pos].id,
                      completed |-> FALSE]
       ELSE /\ Clear
            /\ reg_sd' = NoShutdown
            /\ ev' = [type |-> "shutdown", who |-> 0, completed |-> TRUE]
    /\ UNCHANGED <<reg_pending, reg_status, reg_created, reg_shutdowns>>
    /\ UNCHANGED notReg

(***************************************************************************)
(* TranslatorEngine.detect_language (translator_engine.py 309-595).        *)
(* A text is a set of lines taken from CodeLines; for each line, Matches   *)
(* lists the patterns (language, index in the language's list) that        *)
(* re.search finds in it.  For texts made of these lines a pattern matches *)
(* the text exactly when it matches one of the lines.                      *)
(***************************************************************************)
\* the keys of the patterns dict, in its order
PatternOrder ==
    <<"Python", "JavaScript", "Java", "C++", "Go", "Rust", "Kotlin", "Swift",
      "Ruby", "TypeScript">>

PatternLanguages == {PatternOrder[j] : j \in DOMAIN PatternOrder}

Undetected == "undetected"

Matches ==
    [l \in {"print(\"hi\")", "enum Color", "def f(", "<T>", "private y",
            "new A()", "func f(", "x := 1", "struct S", "word",
            "const x = 1", "   "} |->
       CASE l = "print(\"hi\")" ->
               {<<"Python", 5>>, <<"Kotlin", 10>>, <<"Swift", 10>>}
         [] l = "enum Color" ->
               {<<"Rust", 8>>, <<"Swift", 4>>, <<"TypeScript", 13>>}
         [] l = "def f(" -> {<<"Python", 0>>, <<"Ruby", 0>>}
         [] l = "<T>" -> {<<"Java", 9>>, <<"TypeScript", 2>>}
         [] l = "private y" -> {<<"TypeScript", 7>>}
         [] l = "new A()" -> {<<"Java", 8>>}
         [] l = "func f(" -> {<<"Go", 3>>, <<"Swift", 0>>}
         [] l = "x := 1" -> {<<"Go", 5>>}
         [] l = "struct S" -> {<<"Rust", 7>>, <<"Swift", 3>>}
         [] l = "const x = 1" -> {<<"JavaScript", 4>>}
         [] OTHER -> {}]

CodeLines == DOMAIN Matches

\* code.strip() leaves nothing
Blank(code) == code \subseteq {"   "}

\* scores[lang]: the number of the language's patterns found in the text
Score(code, lang) ==
    Cardinality({m[2] : m \in {x \in UNION {Matches[l] : l \in code} :
                                  x[1] = lang}})

MaxScore(code) ==
    CHOOSE s \in 0..Cardinality(UNION {Matches[l] : l \in code}) :
       /\ \E lang \in PatternLanguages : Score(code, lang) = s
       /\ \A lang \in PatternLanguages : Score(code, lang) <= s

\* max(scores, key=scores.get): the first key with the largest score
best_match(code) ==
    PatternOrder[CHOOSE j \in DOMAIN PatternOrder :
       /\ Score(code, PatternOrder[j]) = MaxScore(code)
       /\ \A k \in 1..(j - 1) : Score(code, PatternOrder[k]) < MaxScore(code)]

\* re.search(r"\bprint\s*\(", code)
PrintCall(code) == "print(\"hi\")" \in code

\* a check of the runner-up that always passes
Unambiguous_always(code) == TRUE

\* sorted_scores[0] > sorted_scores[1]
Unambiguous(code) ==
    Cardinality({lang \in PatternLanguages :
                    Score(code, lang) = MaxScore(code)}) = 1

detect_language(code) ==
    IF Blank(code) THEN Undetected
    ELSE IF MaxScore(code) > 0
    THEN IF MaxScore(code) = 1
         THEN IF best_match(code) = "Python" /\ PrintCall(code)
              THEN "Python"
              ELSE IF Unambiguous(code) THEN best_match(code)
              ELSE Undetected
         ELSE best_match(code)
    ELSE Undetected

DetInit ==
    /\ det_code = {}
    /\ det_result = "pending"

DetQuiet == DetInit

\* the text gets one more line
AddLine(l) ==
    /\ l \notin det_code
    /\ Cardinality(det_code) < MaxLines
    /\ det_code' = det_code \cup {l}
    /\ det_result' = "pending"
    /\ ev' = [type |-> "edit", who |-> 0]
    /\ UNCHANGED notDet

\* detect_language(code) is called
Detect ==
    /\ det_result = "pending"
    /\ det_result' = detect_language(det_code)
    /\ ev' = [type |-> "detect", who |-> 0]
    /\ UNCHANGED det_code
    /\ UNCHANGED notDet

(***************************************************************************)
(* ErrorClassifier and ErrorHandler.handle_error (error_framework.py).     *)
(* An exception is its class and its message; Found gives the watched      *)
(* substrings that str(e).lower() contains.                                *)
(***************************************************************************)
Unset == "none"

ErrorCategory ==
    {"configuration", "network", "authentication", "rate_limit",
     "validation", "provider", "system", "user_input", "unknown"}

ErrorSeverity == {"low", "medium", "high", "critical"}

ErrorTypes == {"Exception", "ValueError", "OSError", "TimeoutError"}

\* isinstance(e, cls): TimeoutError is a subclass of OSError
IsInstance(type, cls) ==
    \/ type = cls
    \/ cls = "Exception"
    \/ type = "TimeoutError" /\ cls = "OSError"

Found ==
    [text \in {"boom", "Request timeout", "401 Unauthorized",
               "429 rate limit", "invalid config"} |->
       CASE text = "Request timeout" -> {"timeout"}
         [] text = "401 Unauthorized" -> {"401", "unauthorized"}
         [] text = "429 rate limit" -> {"429", "rate limit"}
         [] text = "invalid config" -> {"invalid", "config"}
         [] OTHER -> {}]

Errors == [type : ErrorTypes, text : DOMAIN Found]

\* the rules in the order _setup_default_rules adds them
Rules ==
    <<[words |-> {"timeout"}, types |-> {"TimeoutError"},
       category |-> "network", severity |-> "medium"],
      [words |-> {"connection", "network", "unreachable"}, types |-> {},
       category |-> "network", severity |-> "medium"],
      [words |-> {"unauthorized", "authentication", "401", "403"},
       types |-> {},
       category |-> "authentication", severity |-> "high"],
      [words |-> {"rate limit", "429", "too many requests"}, types |-> {},
       category |-> "rate_limit", severity |-> "low"],
      [words |-> {"config", "setting", "missing", "invalid"}, types |-> {},
       category |-> "configuration", severity |-> "high"],
      [words |-> {"validation"}, types |-> {"ValueError", "TypeError"},
       category |-> "validation", severity |-> "medium"],
      [words |-> {}, types |-> {"OSError", "IOError", "MemoryError"},
       category |-> "system", severity |-> "critical"]>>

Condition(rule, error) ==
    \/ Found[error.text] \cap rule.words # {}
    \/ \E cls \in rule.types : IsInstance(error.type, cls)

classify(error) ==
    IF \E j \in DOMAIN Rules : Condition(Rules[j], error)
    THEN LET j == CHOOSE k \in DOMAIN Rules :
                     /\ Condition(Rules[k], error)
                     /\ \A h \in 1..(k - 1) : ~Condition(Rules[h], error)
         IN  [category |-> Rules[j].category, severity |-> Rules[j].severity]
    ELSE [category |-> "unknown", severity |-> "medium"]

\* x or y, for an x that is None or an enum member
Or(x, y) == IF x = Unset THEN y ELSE x

NoErrorInfo == [category |-> Unset, severity |-> Unset]

ErrInit ==
    /\ err_returned = NoErrorInfo
    /\ err_severity_counts = [s \in ErrorSeverity |-> 0]
    /\ err_calls = 0

ErrQuiet == ErrInit

\* handle_error(error, category, severity, user_message=...) returns
handle_error(error, category, severity) ==
    LET info == [category |-> Or(category, classify(error).category),
                 severity |-> Or(severity, classify(error).severity)]
    IN  /\ err_calls < MaxErrors
        /\ err_calls' = err_calls + 1
        /\ err_returned' = info
        /\ err_severity_counts' =
              [err_severity_counts EXCEPT ![info.severity] = @ + 1]
        /\ ev' = [type |-> "handle_error", who |-> 0,
                  explicit |-> severity # Unset,
                  supplied |-> category # Unset]
        /\ UNCHANGED notErr

\* handle_error without a user_message: format_message(error_info) reads
\* error_info before it is assigned, UnboundLocalError
HandleErrorRaises ==
    /\ err_calls < MaxErrors
    /\ err_calls' = err_calls + 1
    /\ ev' = [type |-> "handle_error_raises", who |-> 0,
              explicit |-> FALSE, supplied |-> FALSE]
    /\ UNCHANGED <<err_returned, err_severity_counts>>
    /\ UNCHANGED notErr

(***************************************************************************)
(* ApplicationLifecycleManager (app_manager.py), built with                *)
(* enable_monitoring=False and initialized: register_cleanup, add_plugin,  *)
(* run, graceful_degradation, shutdown and _cleanup.  shutdown is a        *)
(* coroutine: it is suspended in each plugin's shutdown and in the         *)
(* registry's shutdown, and other calls run meanwhile.                     *)
(***************************************************************************)
ApplicationState ==
    {"uninitialized", "initializing", "ready", "running", "degraded",
     "shutting_down", "shutdown", "error"}

PluginNames == {"p1", "p2"}

\* no shutdown is suspended
NoShutdownCall == [pc |-> "idle", pos |-> 0, size |-> 0, from |-> "", mark |-> 0]

Ids(cleanups) == [j \in DOMAIN cleanups |-> cleanups[j].id]

Reverse(s) == [j \in DOMAIN s |-> s[Len(s) + 1 - j]]

LcInit ==
    /\ lc_state = "ready"
    /\ lc_plugins = {}
    /\ lc_cleanups = <<>>
    /\ lc_ran = <<>>
    /\ lc_sd = NoShutdownCall
    /\ lc_shutdowns = 0

LcQuiet == LcInit

register_cleanup(raises) ==
    /\ Len(lc_cleanups) < MaxCleanups
    /\ lc_cleanups' =
          Append(lc_cleanups, [id |-> Len(lc_cleanups) + 1, raises |-> raises])
    /\ ev' = [type |-> "register_cleanup", who |-> 0]
    /\ UNCHANGED <<lc_state, lc_plugins, lc_ran, lc_sd, lc_shutdowns>>
    /\ UNCHANGED notLc

add_plugin(name) ==
    /\ lc_plugins' = lc_plugins \cup {name}
    /\ lc_plugins' # lc_plugins
    /\ ev' = [type |-> "add_plugin", who |-> 0]
    /\ UNCHANGED <<lc_state, lc_cleanups, lc_ran, lc_sd, lc_shutdowns>>
    /\ UNCHANGED notLc

\* run(): READY becomes RUNNING
Run ==
    /\ lc_state = "ready"
    /\ lc_state' = "running"
    /\ ev' = [type |-> "run", who |-> 0]
    /\ UNCHANGED <<lc_plugins, lc_cleanups, lc_ran, lc_sd, lc_shutdowns>>
    /\ UNCHANGED notLc

\* graceful_degradation: the feature raised while RUNNING
Degrade ==
    /\ lc_state = "running"
    /\ lc_state' = "degraded"
    /\ ev' = [type |-> "degrade", who |-> 0]
    /\ UNCHANGED <<lc_plugins, lc_cleanups, lc_ran, lc_sd, lc_shutdowns>>
    /\ UNCHANGED notLc

\* the loop over reversed(self._cleanup_functions); a raising function is
\* logged and the loop goes on
RunCleanups(ran, cleanups) == ran \o Reverse(Ids(cleanups))

\* shutdown() called while another shutdown is in progress
ShutdownSkip ==
    /\ lc_shutdowns < MaxLcShutdowns
    /\ lc_state = "shutting_down"
    /\ lc_shutdowns' = lc_shutdowns + 1
    /\ ev' = [type |-> "shutdown_skip", who |-> 0]
    /\ UNCHANGED <<lc_state, lc_plugins, lc_cleanups, lc_ran, lc_sd>>
    /\ UNCHANGED notLc

\* shutdown() up to its first await
LcShutdownBegin ==
    /\ lc_shutdowns < MaxLcShutdowns
    /\ lc_state # "shutting_down"
    /\ lc_shutdowns' = lc_shutdowns + 1
    /\ lc_state' = "shutting_down"
    /\ lc_sd' = [pc |-> IF lc_plugins = {} THEN "providers" ELSE "plugin",
                 pos |-> IF lc_plugins = {} THEN 0 ELSE 1,
                 size |-> Cardinality(lc_plugins),
                 from |-> lc_state, mark |-> Len(lc_ran)]
    /\ ev' = [type |-> "shutdown_begin", who |-> 0, from |-> lc_state]
    /\ UNCHANGED <<lc_plugins, lc_cleanups, lc_ran>>
    /\ UNCHANGED notLc

\* the plugin's shutdown returned or raised (logged); the loop over
\* self.plugins.values() asks for the next plugin and raises RuntimeError
\* if the dict changed size
PluginDone ==
    /\ lc_sd.pc = "plugin"
    /\ IF Cardinality(lc_plugins) # lc_sd.size
       THEN /\ lc_state' = "error"
            /\ lc_sd' = NoShutdownCall
            /\ ev' = [type |-> "shutdown_end", who |-> 0,
                      from |-> lc_sd.from, mark |-> lc_sd.mark]
       ELSE /\ lc_sd' = IF lc_sd.pos < lc_sd.size
                        THEN [lc_sd EXCEPT !.pos = @ + 1]
                        ELSE [lc_sd EXCEPT !.pc = "providers"]
            /\ ev' = [type |-> "plugin_done", who |-> 0]
            /\ UNCHANGED lc_state
    /\ UNCHANGED <<lc_plugins, lc_cleanups, lc_ran, lc_shutdowns>>
    /\ UNCHANGED notLc

\* provider_registry.shutdown() returned: the cleanup functions run
ProvidersDone ==
    /\ lc_sd.pc = "providers"
    /\ lc_ran' = RunCleanups(lc_ran, lc_cleanups)
    /\ lc_state' = "shutdown"
    /\ lc_sd' = NoShutdownCall
    /\ ev' = [type |-> "shutdown_end", who |-> 0,
              from |-> lc_sd.from, mark |-> lc_sd.mark]
    /\ UNCHANGED <<lc_plugins, lc_cleanups, lc_shutdowns>>
    /\ UNCHANGED notLc

\* provider_registry.shutdown() raised (its map changed size under it)
ProvidersRaise ==
    /\ lc_sd.pc = "providers"
    /\ lc_state' = "error"
    /\ lc_sd' = NoShutdownCall
    /\ ev' = [type |-> "shutdown_end", who |-> 0,
              from |-> lc_sd.from, mark |-> lc_sd.mark]
    /\ UNCHANGED <<lc_plugins, lc_cleanups, lc_ran, lc_shutdowns>>
    /\ UNCHANGED notLc

\* _cleanup at exit: asyncio.run(self.shutdown()) unless SHUTDOWN
\* (SHUTTING_DOWN: the shutdown it runs returns at once)
_cleanup ==
    /\ lc_shutdowns < MaxLcShutdowns
    /\ lc_state \notin {"shutdown", "shutting_down"}
    /\ lc_shutdowns' = lc_shutdowns + 1
    /\ lc_ran' = RunCleanups(lc_ran, lc_cleanups)
    /\ lc_state' = "shutdown"
    /\ ev' = [type |-> "shutdown_end", who |-> 0,
              from |-> lc_state, mark |-> Len(lc_ran)]
    /\ UNCHANGED <<lc_plugins, lc_cleanups, lc_sd>>
    /\ UNCHANGED notLc

(***************************************************************************)
(* ProviderChain.reorder_by_performance (provider_framework.py 503-520).   *)
(* The model keeps no latencies: the reordering is followed while no       *)
(* provider has a success recorded, when average_latency is 0.0 and        *)
(* latency_score 1.0 for every provider, so that the score orders the      *)
(* providers by success_rate.                                              *)
(***************************************************************************)
\* metrics.success_rate of m1 is larger than that of m2
HigherRate(m1, m2) ==
    LET s1 == IF m1.total_requests = 0 THEN 1 ELSE m1.successful_requests
        t1 == IF m1.total_requests = 0 THEN 1 ELSE m1.total_requests
        s2 == IF m2.total_requests = 0 THEN 1 ELSE m2.successful_requests
        t2 == IF m2.total_requests = 0 THEN 1 ELSE m2.total_requests
    IN  s1 * t2 > s2 * t1

\* providers.sort(key=provider_score, reverse=True): highest score first,
\* equal scores in the order they had
SortedByScore(providers, metrics) ==
    LET before(j, k) ==
           \/ HigherRate(metrics[providers[j]], metrics[providers[k]])
           \/ /\ ~HigherRate(metrics[providers[k]], metrics[providers[j]])
              /\ j < k
        place(k) == 1 + Cardinality({j \in DOMAIN providers : before(j, k)})
    IN  [n \in DOMAIN providers |->
           providers[CHOOSE k \in DOMAIN providers : place(k) = n]]

\* reorder_by_performance() is called while execute awaits a provider
reorder_by_performance ==
    /\ x_pc = "awaiting"
    /\ \A p \in Providers : p_metrics[p].successful_requests = 0
    /\ chain' = SortedByScore(chain, p_metrics)
    /\ ev' = [type |-> "reorder", who |-> 0]
    /\ UNCHANGED <<now, p_status, p_cb, p_metrics, last_used_index, x_pc, x_i,
                   x_exceptions, x_result, x_log, x_produced, x_passes, u_inv,
                   pristine, requests, budget>>
    /\ UNCHANGED notChain

(***************************************************************************)
(* A CircuitBreaker built with a CircuitBreakerConfig other than the       *)
(* default, whose wrapped function fails only before the clock's first     *)
(* step and succeeds from then on.                                         *)
(***************************************************************************)
Configs ==
    [failure_threshold : 1..MaxThreshold,
     recovery_timeout : {recovery_timeout},
     success_threshold : 1..MaxThreshold,
     half_open_max_requests : 1..MaxThreshold]

\* CircuitBreaker(config)
ConfiguredInit ==
    /\ cb \in {[CircuitBreakerInit EXCEPT !.config = c] : c \in Configs}
    /\ pc = [t \in Callers |-> "idle"]
    /\ admittedFrom = [t \in Callers |-> "none"]
    /\ trans = [t \in Callers |-> 0]
    /\ calls = 0
    /\ invocations = 0
    /\ streak = 0
    /\ plainRun = TRUE
    /\ windowAdmitted = 0
    /\ openedAt = None

\* func raises, which it does only before the clock's first step
EarlyFail(t) ==
    /\ now = 0
    /\ Fail(t)

\* the provider core and the configuration store at rest
CoreQuiet ==
    /\ CBInit
    /\ ChainQuiet
    /\ RLInit
    /\ PQQuiet
    /\ CfgQuiet

\* error handler and lifecycle manager at rest
AuxQuiet ==
    /\ ErrQuiet
    /\ LcQuiet

\* export, translation engine, load balancer, registry and detector at rest
AppQuiet ==
    /\ ExpQuiet
    /\ TrQuiet
    /\ LBQuiet
    /\ RegQuiet
    /\ DetQuiet
    /\ AuxQuiet

ChainSpecInit ==
    /\ now = 0
    /\ ev = [type |-> "init", who |-> 0]
    /\ CBInit
    /\ ChainInit
    /\ RLInit
    /\ PQQuiet
    /\ CfgQuiet
    /\ AppQuiet

ChainNext ==
    \/ ChainStart
    \/ ChainSkip
    \/ ChainRejected
    \/ ChainDispatch
    \/ \E v \in Values : ChainSucceed(v)
    \/ ChainFail
    \/ ChainRaise
    \/ \E p \in Providers, s \in {"healthy", "degraded", "unhealthy"} :
          HealthProbe(p, s)
    \/ ChainTick

ChainSpec == ChainSpecInit /\ [][ChainNext]_vars

ProviderSpecInit ==
    /\ now = 0
    /\ ev = [type |-> "init", who |-> 0]
    /\ CBInit
    /\ OneProviderInit
    /\ RLInit
    /\ PQQuiet
    /\ CfgQuiet
    /\ AppQuiet

ProviderSpec == ProviderSpecInit /\ [][ChainNext]_vars

Init ==
    /\ now = 0
    /\ ev = [type |-> "init", who |-> 0]
    /\ CBInit
    /\ ChainQuiet
    /\ RLInit
    /\ PQQuiet
    /\ CfgQuiet
    /\ AppQuiet

Next ==
    \/ \E t \in Callers : Reject(t)
    \/ \E t \in Callers : Admit(t)
    \/ \E t \in Callers : Succeed(t)
    \/ \E t \in Callers : Fail(t)
    \/ Tick

Spec == Init /\ [][Next]_vars

RLNext ==
    \/ \E t \in Acquirers, k \in 1..MaxTokensAsked, blocking \in BOOLEAN :
          AcquireGranted(t, k, blocking)
    \/ \E t \in Acquirers, k \in 1..MaxTokensAsked : AcquireRefused(t, k)
    \/ \E t \in Acquirers, k \in 1..MaxTokensAsked : AcquireSleep(t, k)
    \/ \E t \in Acquirers : AcquireWake(t)
    \/ RLTick

RLSpecInit ==
    /\ now = 0
    /\ ev = [type |-> "init", who |-> 0]
    /\ CBInit
    /\ ChainQuiet
    /\ RLInit
    /\ PQQuiet
    /\ CfgQuiet
    /\ AppQuiet

RLSpec == RLSpecInit /\ [][RLNext]_vars

PQNext ==
    \/ \E t \in PQThreads, p \in RequestPriority : PutEnqueue(t, p)
    \/ \E t \in PQThreads, p \in RequestPriority : PutBlock(t, p)
    \/ \E t \in PQThreads : PutUnblock(t)
    \/ \E t \in PQThreads : PutRelease(t)
    \/ \E t \in PQThreads : GetWait(t)
    \/ \E t \in PQThreads : GetTimeout(t)
    \/ \E t \in PQThreads : GetAcquire(t)
    \/ \E t \in PQThreads : GetSkip(t)
    \/ \E t \in PQThreads : GetReturn(t)

PQSpecInit ==
    /\ now = 0
    /\ ev = [type |-> "init", who |-> 0]
    /\ CBInit
    /\ ChainQuiet
    /\ RLInit
    /\ PQInit
    /\ CfgQuiet
    /\ AppQuiet

PQSpec == PQSpecInit /\ [][PQNext]_vars

CfgNext ==
    \/ \E fails \in BOOLEAN : CfgOpen(fails)
    \/ CfgClose
    \/ \E how \in {"garbage", "tampered"} : CfgCorrupt(how)
    \/ \E kv \in SetInputs, fails \in BOOLEAN : CfgSet(kv[1], kv[2], fails)
    \/ \E updates \in UpdateInputs, fails \in BOOLEAN :
          CfgUpdate(updates, fails)
    \/ \E import_data \in ImportInputs, merge \in BOOLEAN, fails \in BOOLEAN :
          CfgImport(import_data, merge, fails)
    \/ \E fails \in BOOLEAN : CfgReset(fails)
    \/ TxBegin
    \/ \E kv \in TxInputs : TxSet(kv[1], kv[2])
    \/ TxRaise
    \/ TxCommit
    \/ TxApply
    \/ \E fails \in BOOLEAN : TxSave(fails)
    \/ ReaderGetAll

CfgSpecInit ==
    /\ now = 0
    /\ ev = [type |-> "init", who |-> 0]
    /\ CBInit
    /\ ChainQuiet
    /\ RLInit
    /\ PQQuiet
    /\ CfgInit
    /\ AppQuiet

CfgSpec == CfgSpecInit /\ [][CfgNext]_vars

ExpNext ==
    \/ \E s \in Stores, k \in ApiKeyValues :
          ExpSet(s, "openai_api_key", StrV(k))
    \/ \E s \in Stores, include_sensitive \in BOOLEAN :
          Export(s, include_sensitive)

ExportSpecInit ==
    /\ now = 0
    /\ ev = [type |-> "init", who |-> 0]
    /\ CoreQuiet
    /\ ExpInit
    /\ TrQuiet
    /\ LBQuiet
    /\ RegQuiet
    /\ DetQuiet
    /\ AuxQuiet

ExportSpec == ExportSpecInit /\ [][ExpNext]_vars

\* the language pairs and provider arguments tried
LangPairs == {<<"Python", "JavaScript">>, <<"Python", "Python">>,
              <<"COBOL", "Python">>}
ProviderArgs == {"none", "openai"}
\* the answers an AI provider may give to one prompt
Answers == {1, 2}

TrNext ==
    \/ \E c \in Codes, l \in LangPairs, p \in ProviderArgs :
          TranslateHit(c, l[1], l[2], p)
    \/ \E c \in Codes, l \in LangPairs : TranslateInvalid(c, l[1], l[2])
    \/ \E c \in Codes, l \in LangPairs, p \in ProviderArgs,
          fails \in BOOLEAN :
          TranslateOffline(c, l[1], l[2], p, fails)
    \/ \E c \in Codes, l \in LangPairs, p \in ProviderArgs,
          fails \in BOOLEAN :
          TranslateUnavailable(c, l[1], l[2], p, fails)
    \/ \E c \in Codes, l \in LangPairs, p \in ProviderArgs :
          TranslateAwait(c, l[1], l[2], p)
    \/ \E req \in BagToSet(tr_awaiting), n \in Answers :
          ProviderAnswers(req, n)
    \/ \E req \in BagToSet(tr_awaiting), fails \in BOOLEAN :
          ProviderRaises(req, fails)

TranslateSpecInit ==
    /\ now = 0
    /\ ev = [type |-> "init", who |-> 0]
    /\ CoreQuiet
    /\ ExpQuiet
    /\ TrInit
    /\ LBQuiet
    /\ RegQuiet
    /\ DetQuiet
    /\ AuxQuiet

TranslateSpec == TranslateSpecInit /\ [][TrNext]_vars

LBNext ==
    \/ \E t \in Selectors : SelectNone(t)
    \/ \E t \in Selectors : SelectFilter(t)
    \/ \E t \in Selectors : RoundRobinEnter(t)
    \/ \E t \in Selectors : RoundRobinReturn(t)
    \/ \E j \in Pool, s \in Statuses : StatusChange(j, s)

LBSpecInit ==
    /\ now = 0
    /\ ev = [type |-> "init", who |-> 0]
    /\ CoreQuiet
    /\ ExpQuiet
    /\ TrQuiet
    /\ LBInit
    /\ RegQuiet
    /\ DetQuiet
    /\ AuxQuiet

LBSpec == LBSpecInit /\ [][LBNext]_vars

RegNext ==
    \/ \E name \in RegNames : CreateBegin(name)
    \/ \E e \in reg_pending : CreateDone(e)
    \/ \E e \in reg_pending : CreateFail(e)
    \/ \E i \in InstanceIds, s \in {"healthy", "unhealthy"} :
          MonitorProbe(i, s)
    \/ ShutdownBegin
    \/ ShutdownResume

RegistrySpecInit ==
    /\ now = 0
    /\ ev = [type |-> "init", who |-> 0]
    /\ CoreQuiet
    /\ ExpQuiet
    /\ TrQuiet
    /\ LBQuiet
    /\ RegInit
    /\ DetQuiet
    /\ AuxQuiet

RegistrySpec == RegistrySpecInit /\ [][RegNext]_vars

DetNext ==
    \/ \E l \in CodeLines : AddLine(l)
    \/ Detect

DetectSpecInit ==
    /\ now = 0
    /\ ev = [type |-> "init", who |-> 0]
    /\ CoreQuiet
    /\ ExpQuiet
    /\ TrQuiet
    /\ LBQuiet
    /\ RegQuiet
    /\ DetInit
    /\ AuxQuiet

DetectSpec == DetectSpecInit /\ [][DetNext]_vars

ErrNext ==
    \/ \E e \in Errors, c \in ErrorCategory \cup {Unset},
          s \in ErrorSeverity \cup {Unset} : handle_error(e, c, s)
    \/ HandleErrorRaises

ErrorSpecInit ==
    /\ now = 0
    /\ ev = [type |-> "init", who |-> 0]
    /\ CoreQuiet
    /\ ExpQuiet
    /\ TrQuiet
    /\ LBQuiet
    /\ RegQuiet
    /\ DetQuiet
    /\ ErrInit
    /\ LcQuiet

ErrorSpec == ErrorSpecInit /\ [][ErrNext]_vars

LcNext ==
    \/ \E raises \in BOOLEAN : register_cleanup(raises)
    \/ \E name \in PluginNames : add_plugin(name)
    \/ Run
    \/ Degrade
    \/ ShutdownSkip
    \/ LcShutdownBegin
    \/ PluginDone
    \/ ProvidersDone
    \/ ProvidersRaise
    \/ _cleanup

LifecycleSpecInit ==
    /\ now = 0
    /\ ev = [type |-> "init", who |-> 0]
    /\ CoreQuiet
    /\ ExpQuiet
    /\ TrQuiet
    /\ LBQuiet
    /\ RegQuiet
    /\ DetQuiet
    /\ ErrQuiet
    /\ LcInit

LifecycleSpec == LifecycleSpecInit /\ [][LcNext]_vars

ReorderNext ==
    \/ ChainStart
    \/ ChainSkip
    \/ ChainRejected
    \/ ChainDispatch
    \/ \E v \in Values : ChainSucceed(v)
    \/ ChainFail
    \/ ChainRaise
    \/ \E p \in Providers, s \in {"healthy", "degraded", "unhealthy"} :
          HealthProbe(p, s)
    \/ ChainTick
    \/ reorder_by_performance

ReorderSpec == ChainSpecInit /\ [][ReorderNext]_vars

LiveInit ==
    /\ now = 0
    /\ ev = [type |-> "init", who |-> 0]
    /\ ConfiguredInit
    /\ ChainQuiet
    /\ RLInit
    /\ PQQuiet
    /\ CfgQuiet
    /\ AppQuiet

LiveCallers == 1..NumLiveCallers

LiveNext ==
    \/ \E t \in LiveCallers : Reject(t)
    \/ \E t \in LiveCallers : Admit(t)
    \/ \E t \in LiveCallers : Succeed(t)
    \/ \E t \in LiveCallers : EarlyFail(t)
    \/ Tick

\* time advances, every caller keeps calling, and every call returns
LiveFairness ==
    /\ WF_vars(Tick)
    /\ \A t \in LiveCallers : WF_vars(Reject(t) \/ Admit(t))
    /\ \A t \in LiveCallers : WF_vars(Succeed(t))

LiveSpec == LiveInit /\ [][LiveNext]_vars /\ LiveFairness

(***************************************************************************)
(* Rate limiter properties (specification RLSpec)                          *)
(***************************************************************************)
IsNonBlocking(e) == e.type = "acquire" /\ ~e.blocking

\* C10: a non-blocking acquire of k refills the level to
\* min(burst, level + elapsed * rate), then grants and debits k if that is at
\* least k, and otherwise refuses and debits nothing; so while no time has
\* passed a single token is refused only once burst tokens have been
\* granted, and a single token is granted whenever 1/rate seconds have
\* passed since the previous acquire.
C10_NonBlockingAcquire ==
    /\ [][ IsNonBlocking(ev') =>
             LET elapsed == rl_clock - rl_last_update
                 level == Min(rl_burst * Unit, rl_tokens + elapsed * rl_rate)
             IN /\ ev'.ok = (level >= ev'.k * Unit)
                /\ rl_tokens' = IF ev'.ok THEN level - ev'.k * Unit ELSE level
                /\ (ev'.k = 1 /\ elapsed * rl_rate >= Unit) => ev'.ok
         ]_vars
    /\ []((IsNonBlocking(ev) /\ ev.k = 1 /\ ~ev.ok /\ rl_clock = 0)
            => rl_granted = rl_burst)

C10_Witness ==
    /\ IsNonBlocking(ev) /\ ev.k = 1 /\ ev.ok
    /\ rl_tokens = 0 /\ rl_granted = rl_burst + 1
    /\ rl_clock * rl_rate = Unit

(***************************************************************************)
(* Circuit breaker properties (specification Spec)                         *)
(***************************************************************************)
IsCall(e) == e.type \in {"admit", "reject"}

\* C1: from CLOSED, the failure_threshold-th consecutive failure opens the
\* breaker; a call made while no more than recovery_timeout has passed since
\* the opening is rejected and func is not invoked; in a sequential run of
\* failing calls func has run min(calls, failure_threshold) times.
C1_TripAfterThreshold ==
    /\ [][ /\ (ev'.type = "failure" /\ cb.state = "closed"
               /\ streak' >= failure_threshold) => cb'.state = "open"
           /\ (cb.state = "open" /\ now - openedAt <= recovery_timeout
               /\ IsCall(ev')) => (ev'.type = "reject" /\ invocations' = invocations)
         ]_vars
    /\ [](plainRun /\ calls < MaxCount
            => invocations = Min(calls, failure_threshold))

C1_Witness ==
    /\ plainRun /\ cb.state = "open" /\ ev.type = "reject"
    /\ calls = failure_threshold + 1 /\ invocations = failure_threshold

\* C3: while the breaker is HALF_OPEN, the calls admitted since it entered
\* HALF_OPEN (the call that moved it there included) number at most
\* half_open_max_requests.
C3_HalfOpenProbeBound ==
    cb.state = "half_open" => windowAdmitted <= half_open_max_requests

C3_Witness ==
    /\ cb.state = "half_open" /\ windowAdmitted = half_open_max_requests
    /\ ev.type = "reject"
    /\ Cardinality({t \in Callers : pc[t] = "running"}) >= 2

\* C4: a success recorded in HALF_OPEN increments success_count, and closes
\* the breaker with failure_count = 0 exactly when the count reaches
\* success_threshold; a failure recorded in HALF_OPEN reopens the breaker
\* with success_count = 0.
C4_HalfOpenOutcome ==
    [][ /\ (ev'.type = "success" /\ cb.state = "half_open") =>
              IF cb.success_count + 1 = success_threshold
              THEN cb'.state = "closed" /\ cb'.failure_count = 0
              ELSE cb'.state = "half_open"
                   /\ cb'.success_count = cb.success_count + 1
        /\ (ev'.type = "failure" /\ cb.state = "half_open") =>
              (cb'.state = "open" /\ cb'.success_count = 0)
        /\ (cb.state = "half_open" /\ cb'.state = "closed") =>
              ev'.type = "success"
      ]_vars

C4_Witness ==
    /\ ev.type = "success" /\ cb.state = "closed" /\ cb.failure_count = 0
    /\ admittedFrom[ev.who] = "half_open" /\ openedAt # None

\* C5 (as claimed): a call made while OPEN is rejected as long as
\* recovery_timeout has not elapsed since the transition to OPEN, and is
\* admitted, moving the breaker to HALF_OPEN, once it has.
C5_TimeoutFromTransition ==
    [][ (cb.state = "open" /\ IsCall(ev')) =>
            IF now - openedAt > recovery_timeout
            THEN ev'.type = "admit" /\ cb'.state = "half_open"
            ELSE ev'.type = "reject"
      ]_vars

\* C6 (as claimed): no admitted call causes more than one state transition.
C6_OneTransitionPerCall ==
    \A t \in Callers : trans[t] <= 1

\* C6 (amended): a call causes at most one transition when it is admitted
\* and at most one when its outcome is recorded; only the call whose
\* admission moved the breaker from OPEN to HALF_OPEN can cause two.
C6_TransitionsPerCall ==
    \A t \in Callers : trans[t] <= (IF admittedFrom[t] = "open" THEN 2 ELSE 1)

C6_Witness ==
    \E t \in Callers : trans[t] = 2 /\ admittedFrom[t] = "open" /\ cb.state = "open"

(***************************************************************************)
(* Dispatch properties (specifications ProviderSpec and ChainSpec)         *)
(***************************************************************************)
\* C2 (as claimed): a dispatched request passes through the provider's
\* breaker once, so a provider whose underlying call always fails has had
\* that call invoked failure_threshold times when its breaker opens.
C2_OncePerDispatch ==
    /\ x_passes <= 1
    /\ \A p \in Providers :
          (pristine[p] /\ p_cb[p].state = "open") => u_inv[p] = failure_threshold

Reached(log) == [j \in 1..Len(log) |-> log[j].p]
Prefix(seq, n) == [j \in 1..n |-> seq[j]]

\* C7: when execute has returned, the value is the one the returning
\* provider's call produced, the providers reached are the chain up to that
\* provider in order, each one before it was skipped (only if unhealthy) or
\* dispatched to and raised, and none after it was reached.
C7_ReturnsFirstSuccess ==
    /\ [](x_pc = "returned" =>
            LET n == Len(x_log) IN
            /\ n \in 1..Len(chain)
            /\ Reached(x_log) = Prefix(chain, n)
            /\ \A j \in 1..(n - 1) :
                  x_log[j].what \in {"skipped", "rejected", "failed"}
            /\ x_log[n].what = "returned"
            /\ x_result \in Values /\ x_result = x_produced)
    /\ [][ev'.type = "skip" => p_status[chain[x_i]] = "unhealthy"]_vars

C7_Witness ==
    /\ x_pc = "returned" /\ Len(x_log) = 3
    /\ x_log[1].what = "skipped" /\ x_log[2].what = "failed"

\* C8 (as claimed): the operation is only invoked on providers whose status
\* is healthy.
C8_OnlyHealthyInvoked ==
    [][ev'.type = "dispatch" => p_status[chain[x_i]] = "healthy"]_vars

\* C8 (amended): the operation is never dispatched to a provider whose
\* status is unhealthy; such a provider is skipped and the loop moves on to
\* the next one.
C8_UnhealthySkipped ==
    [][ /\ ev'.type \in {"dispatch", "rejected"} =>
              p_status[chain[x_i]] # "unhealthy"
        /\ (x_pc = "iter" /\ x_i <= Len(chain)
            /\ p_status[chain[x_i]] = "unhealthy") =>
              (ev'.type = "skip" /\ x_i' = x_i + 1 /\ x_pc' = "iter"
               /\ u_inv' = u_inv)
      ]_vars

C8_Witness ==
    /\ ev.type = "dispatch" /\ x_pc = "awaiting"
    /\ p_status[chain[x_i]] \in {"unknown", "degraded"}
    /\ x_i > 1 /\ x_log[1].what = "skipped"

\* the faults of the providers that were dispatched to and failed
Faults(log) ==
    LET f == SelectSeq(log, LAMBDA r : r.what \in {"rejected", "failed"}) IN
    [j \in 1..Len(f) |->
        [name |-> f[j].p,
         e |-> IF f[j].what = "rejected" THEN "breaker_open" ELSE "fault"]]

\* C9: execute raises all-providers-failed exactly when it ends without a
\* provider having returned; it has then reached every provider of the
\* chain, a provider's fault having moved the loop to the next one, and the
\* fault list has one entry per provider dispatched to and failed, in order.
C9_AllProvidersFailed ==
    /\ [](x_pc = "raised" =>
            /\ Reached(x_log) = chain
            /\ \A j \in 1..Len(x_log) :
                  x_log[j].what \in {"skipped", "rejected", "failed"}
            /\ x_exceptions = Faults(x_log))
    /\ [](x_pc = "returned" => x_log[Len(x_log)].what = "returned")
    /\ [][ev'.type \in {"failed", "rejected"} =>
              (x_pc' = "iter" /\ x_i' = x_i + 1)]_vars

C9_Witness ==
    /\ x_pc = "raised" /\ Len(x_exceptions) = 2
    /\ x_log[1].what = "failed" /\ x_log[2].what = "skipped"
    /\ x_log[3].what = "rejected"

(***************************************************************************)
(* Rate limiter level (specification RLSpec)                               *)
(***************************************************************************)
\* C11: in every state, so after every acquire (granted, refused, or
\* blocking and woken; any number of tokens asked; any interleaving of the
\* callers), the token level is at least 0 and at most burst.
C11_TokensWithinBurst ==
    rl_tokens >= 0 /\ rl_tokens <= rl_burst * Unit

\* a blocking acquire of more than burst tokens has slept and returned
C11_Witness ==
    /\ ev.type = "acquire" /\ ev.blocking /\ ev.ok
    /\ ev.k > rl_burst
    /\ rl_tokens = 0

(***************************************************************************)
(* Priority queue properties (specification PQSpec)                        *)
(***************************************************************************)
\* the items held in the queues
Queued == UNION {{pq_queues[p][j] : j \in 1..Len(pq_queues[p])} :
                  p \in RequestPriority}

\* C12: while no two calls overlap, a get that returns an item returns one
\* of the highest priority queued and, of those, the one put first; a get
\* raises Empty only when nothing is queued; and every item put is either
\* still queued, with a semaphore permit for it, or was returned once.
C12_HighestPriorityFIFO ==
    /\ [][ (ev'.type = "get" /\ pq_serial') =>
             IF ev'.ok
             THEN /\ ev'.item \in Queued
                  /\ \A it \in Queued :
                        \/ it.priority < ev'.item.priority
                        \/ /\ it.priority = ev'.item.priority
                           /\ it.id >= ev'.item.id
                  /\ ev'.item \notin Queued'
             ELSE Queued = {}
         ]_vars
    /\ [](pq_serial =>
            LET Q == {it.id : it \in Queued}
                R == {pq_returned[j] : j \in 1..Len(pq_returned)}
                W == {pq_item[t].id : t \in {u \in PQThreads :
                                               pq_pc[u] = "put_blocked"}}
            IN /\ Q \cap R = {}
               /\ Q \cup R \cup W = 1..pq_puts
               /\ Cardinality(R) = Len(pq_returned)
               /\ (\A t \in PQThreads : pq_pc[t] = "idle")
                     => pq_sem = Cardinality(Q))

\* the second item put was returned before the first, then the first
C12_Witness ==
    /\ pq_serial
    /\ ev.type = "get" /\ ev.ok
    /\ pq_returned = <<2, 1>>
    /\ pq_puts = 3

\* C13: no put ever waits inside queue.Queue.put, whatever maxsize is.
C13_PutNeverBlocks ==
    \A t \in PQThreads : pq_pc[t] # "put_blocked"

(***************************************************************************)
(* Configuration store properties (specification CfgSpec)                  *)
(***************************************************************************)
\* the record the transaction asks for: the record at scope entry overlaid
\* with the buffered sets
Merged(changes) == Overlay(tx_entry_data, changes)

Valid(d) == ~validate(d).crashed /\ validate(d).errors = {}

\* C14: when an exception leaves a transaction scope before commit, get(k)
\* gives for every key what it gave at scope entry and the live file is the
\* one of scope entry; when the scope is left normally and the commit
\* succeeds, the record is the entry record overlaid with all the buffered
\* sets, nothing was written before the last step of the commit, and that
\* step writes the whole record to the live file at once.
C14_TransactionScope ==
    /\ [][ ev'.type = "tx_raise" =>
             /\ \A k \in CfgKeys : Get(cfg_data', k) = Get(tx_entry_data, k)
             /\ cfg_live' = tx_entry_live
         ]_vars
    /\ [][ (ev'.type = "tx_commit" /\ ev'.outcome = "ok") =>
             /\ cfg_data' = Merged(ev'.changes)
             /\ cfg_live = tx_entry_live
             /\ cfg_live' # cfg_live
             /\ Loads(cfg_live') /\ cfg_live'.data = cfg_data'
         ]_vars

\* an exception has left a scope in which two keys had been set, after an
\* earlier write of the live file
C14_Witness ==
    /\ ev.type = "tx_raise" /\ ev.buffered = 2
    /\ cfg_data = tx_entry_data
    /\ cfg_live = tx_entry_live /\ Loads(cfg_live)

\* C15: commit validates the merged record before it changes any key, and a
\* commit whose merged record is invalid, or whose save fails, leaves the
\* record and the live file as they were at scope entry.
C15_CommitAllOrNothing ==
    /\ [][ ev'.type = "tx_apply" => Valid(Merged(ChangesMap(tx_changes)))
         ]_vars
    /\ [][ (ev'.type = "tx_commit"
            /\ (~Valid(Merged(ev'.changes)) \/ ev'.outcome # "ok")) =>
             /\ cfg_data' = tx_entry_data
             /\ cfg_live' = tx_entry_live
         ]_vars

\* C16: a get_all from another thread while a transaction commits shows the
\* keys the transaction sets either all at their values before the commit
\* or all at their values after it.
C16_NoPartialRead ==
    [][ (ev'.type = "get_all" /\ tx_state = "committing") =>
          LET keys == DOMAIN ChangesMap(tx_changes)
              post == Merged(ChangesMap(tx_changes))
          IN \/ \A k \in keys : Get(ev'.result, k) = Get(tx_entry_data, k)
             \/ \A k \in keys : Get(ev'.result, k) = Get(post, k)
      ]_vars

\* C17: a set or update whose merged record violates the schema raises
\* SchemaValidationError and changes neither the record nor the live file;
\* one whose merged record is valid replaces every supplied key in the
\* record and writes the record to the live file (calls during which the
\* storage rejects the write are left aside).
C17_SetUpdateValidated ==
    [][ (ev'.type \in {"set", "update"} /\ ev'.outcome # "ConfigError") =>
          LET merged == IF ev'.type = "set"
                        THEN Put(cfg_data, ev'.key, ev'.value)
                        ELSE Overlay(cfg_data, ev'.updates)
          IN IF Valid(merged)
             THEN /\ ev'.outcome = "ok"
                  /\ cfg_data' = merged
                  /\ Loads(cfg_live') /\ cfg_live'.data = merged
             ELSE /\ ev'.outcome = "SchemaValidationError"
                  /\ cfg_data' = cfg_data
                  /\ cfg_live' = cfg_live
      ]_vars

\* the live file does not parse, or parses and fails its checksum
Broken(f) == f.kind = "garbage" \/ (f.kind = "json" /\ ~_verify_integrity(f))

\* how many backups are newer than the one at position i
Rank(b, i) ==
    Cardinality({j \in 1..Len(b) :
                    \/ b[j].mtime > b[i].mtime
                    \/ b[j].mtime = b[i].mtime /\ j > i})

\* C18: opening a store whose live file is broken, on storage that accepts
\* the writes the opening makes, does not raise; if one of the three newest
\* backups parses and verifies, the record is the newest such backup and
\* that backup is the live file afterwards; otherwise the record is the
\* defaults and the live file holds the defaults.
C18_OpenRecovers ==
    [][ (ev'.type = "open" /\ Broken(cfg_live) /\ ~ev'.faulty) =>
          LET b == cfg_backups
              good == {i \in 1..Len(b) :
                          /\ Rank(b, i) < 3
                          /\ Loads(b[i]) /\ _verify_integrity(b[i])}
          IN /\ ~ev'.raised
             /\ cfg_mgr' = "open"
             /\ IF good # {}
                THEN LET i == CHOOSE i \in good :
                                 \A j \in good : Rank(b, i) <= Rank(b, j)
                     IN /\ cfg_data' = b[i].data
                        /\ cfg_live' = b[i]
                ELSE /\ cfg_data' = _get_defaults
                     /\ Loads(cfg_live')
                     /\ cfg_live'.data = _get_defaults
      ]_vars

\* a store was opened on a broken live file and took the second newest
\* backup, the newest being unparseable and an older one verifying too
C18_Witness ==
    /\ ev.type = "open" /\ ~ev.raised
    /\ cfg_mgr = "open"
    /\ Len(cfg_backups) >= 3
    /\ cfg_live \in {cfg_backups[j] : j \in 1..Len(cfg_backups)}
    /\ \E j \in 1..Len(cfg_backups) :
          /\ cfg_backups[j].kind = "garbage"
          /\ cfg_backups[j].mtime > cfg_live.mtime
    /\ \E j \in 1..Len(cfg_backups) :
          /\ Loads(cfg_backups[j])
          /\ cfg_backups[j].mtime < cfg_live.mtime
    /\ cfg_data = cfg_live.data

\* C19: after every write of the live file by the store (a write from
\* outside is not one) the file parses and its stored checksum is the
\* checksum of its other fields.
C19_ChecksumAfterWrite ==
    [][ (cfg_live' # cfg_live /\ ev'.type # "corrupt") =>
          /\ Loads(cfg_live')
          /\ cfg_live'.sum = _calculate_checksum(cfg_live'.data)
      ]_vars

\* C20: a replace-mode import of a file that omits a required field, and
\* whose fields are otherwise valid, succeeds; the record then holds the
\* imported fields and the default of every required field omitted.
C20_ReplaceImportFillsDefaults ==
    [][ (/\ ev'.type = "import" /\ ~ev'.merge
         /\ ev'.outcome # "ConfigError"
         /\ SchemaRequired \ DOMAIN ev'.import_data # {}
         /\ \A f \in SchemaFields \cap DOMAIN ev'.import_data :
               FieldOK(f, ev'.import_data[f])) =>
          /\ ev'.outcome = "ok"
          /\ \A f \in SchemaRequired \ DOMAIN ev'.import_data :
                Get(cfg_data', f) = _get_defaults[f]
          /\ \A k \in DOMAIN ev'.import_data :
                Get(cfg_data', k) = ev'.import_data[k]
      ]_vars

(***************************************************************************)
(* Export properties (specification ExportSpec)                            *)
(***************************************************************************)
\* the two records agree on every key that is neither reserved nor sensitive
SameButSensitive(d1, d2) ==
    \A k \in (DOMAIN d1 \cup DOMAIN d2) \ (ReservedKeys \cup SensitiveFields) :
        /\ k \in DOMAIN d1 /\ k \in DOMAIN d2
        /\ d1[k] = d2[k]

Sanitized(s) == exp_snapshot[s].written /\ ~exp_snapshot[s].include_sensitive

\* C21: a snapshot exported with include_sensitive = false holds no reserved
\* key and no field flagged sensitive, and two stores whose records differ
\* only in the values of sensitive fields export identical snapshots.
C21_ExportSanitized ==
    /\ \A s \in Stores :
          Sanitized(s) =>
             DOMAIN exp_snapshot[s].data
                \cap (ReservedKeys \cup SensitiveFields) = {}
    /\ \A s \in Stores, u \in Stores :
          (/\ Sanitized(s)
           /\ Sanitized(u)
           /\ SameButSensitive(exp_snapshot[s].of, exp_snapshot[u].of))
          => exp_snapshot[s].data = exp_snapshot[u].data

\* both stores exported without sensitive fields while holding different,
\* non-empty API keys and a checksum, and the snapshots are not empty
C21_Witness ==
    /\ Sanitized(1)
    /\ Sanitized(2)
    /\ SameButSensitive(exp_snapshot[1].of, exp_snapshot[2].of)
    /\ exp_snapshot[1].of["openai_api_key"] = StrV("sk-one")
    /\ exp_snapshot[2].of["openai_api_key"] = StrV("sk-two")
    /\ "_checksum" \in DOMAIN exp_snapshot[1].of
    /\ "theme" \in DOMAIN exp_snapshot[1].data
    /\ ev.type = "export"

(***************************************************************************)
(* Translation engine properties (specification TranslateSpec)             *)
(***************************************************************************)
\* the text last stored under a key that is in the cache: stored in this
\* run, or else in the cache since before the run
AgedText(key) ==
    AgedCache[CHOOSE j \in 1..CacheLimit : AgedCache[j].key = key].text

LastStoredText(key) ==
    IF key \in DOMAIN tr_stored THEN tr_stored[key] ELSE AgedText(key)

\* this step is a whole translate call or the start of one
CallStarts == tr_calls' = tr_calls + 1

\* C22: a translate call that finds an entry under (s, t, hash(code)) returns
\* exactly the text last stored under that key, with confidence 1.0, and
\* invokes no provider.
C22_CacheHit ==
    [][ (/\ CallStarts
         /\ ev'.type = "translate"
         /\ ReqKey(ev'.req) \in Keys(tr_cache))
        => (/\ ev'.hit
            /\ ev'.outcome = "returned"
            /\ ev'.text = LastStoredText(ReqKey(ev'.req))
            /\ ev'.confidence = 100
            /\ ev'.invoked = <<>>
            /\ tr_awaiting' = tr_awaiting)
      ]_vars

\* a hit on an entry stored in this run for another source text with the
\* same hash
C22_Witness ==
    /\ ev.type = "translate"
    /\ ev.hit
    /\ ReqKey(ev.req) \in DOMAIN tr_stored
    /\ ev.text = tr_stored[ReqKey(ev.req)]
    /\ ev.text.kind = "ai"
    /\ ev.text.code # ev.req.code

\* the least recently used entry: the smallest time of last use, and among
\* entries never used since they were inserted the one inserted first
LRUKey(cache) ==
    cache[CHOOSE j \in DOMAIN cache :
             \A k \in DOMAIN cache :
                \/ cache[j].used < cache[k].used
                \/ cache[j].used = cache[k].used /\ j <= k].key

\* C23: when an insertion takes the cache over capacity, the entry evicted
\* is the least recently used one, insertion and cache hit both being uses.
C23_EvictsLeastRecentlyUsed ==
    [][ (/\ ev'.type = "translate"
         /\ tr_clock' # tr_clock
         /\ ~ev'.hit
         /\ ev'.evicted # NoKey)
        => ev'.evicted = LRUKey(tr_cache)
      ]_vars

\* C24: after every translate call the cache holds at most max_cache_size
\* entries (100 when not configured).
C24_CacheWithinConfiguredSize ==
    ev.type = "translate" => Len(tr_cache) <= tr_max_cache_size

Count(seq, x) == Cardinality({j \in DOMAIN seq : seq[j] = x})

\* C25: a failing provider other than offline is followed by exactly one
\* call of the offline provider, whose result is returned or whose failure
\* is raised; a failing offline provider is not retried; no call invokes
\* providers more than twice.
C25_OfflineFallbackOnce ==
    ev.type = "translate" =>
       /\ Len(ev.invoked) <= 2
       /\ ev.req.chosen = "offline" => ev.invoked = <<"offline">>
       /\ (ev.req.chosen \notin {"offline", ""} /\ ev.failed) =>
             /\ Count(ev.invoked, "offline") = 1
             /\ ev.invoked[Len(ev.invoked)] = "offline"
             /\ ev.outcome = "returned" =>
                   ev.text = OfflineTranslate(ev.req.code, ev.req.source_lang,
                                              ev.req.target_lang)
       /\ (ev.req.chosen \notin {"offline", ""} /\ ~ev.failed) =>
             ev.invoked = <<ev.req.chosen>>

\* the AI provider chosen by default failed and the offline result came back
C25_Witness ==
    /\ ev.type = "translate"
    /\ ev.failed
    /\ ev.req.chosen = "anthropic"
    /\ ev.invoked = <<"anthropic", "offline">>
    /\ ev.outcome = "returned"
    /\ ev.text.kind = "offline"

\* C26: offline translation with source_lang = target_lang and no cached
\* entry returns the input unchanged with confidence 1.0.
C26_SameLanguageOffline ==
    (/\ ev.type = "translate"
     /\ ~ev.hit
     /\ ev.outcome = "returned"
     /\ ev.invoked # <<>>
     /\ ev.invoked[Len(ev.invoked)] = "offline"
     /\ ev.req.source_lang = ev.req.target_lang)
    => (/\ ev.text = SourceText(ev.req.code)
        /\ ev.confidence = 100)

(***************************************************************************)
(* Load balancer properties (specification LBSpec)                         *)
(***************************************************************************)
\* C27: with round_robin and a pool of n instances none of which is
\* unhealthy, the k-th selection (k from 0) returns the instance at pool
\* position k mod n, so any n consecutive selections pick every instance
\* exactly once; no two selections consume the same counter value.
C27_RoundRobinOrder ==
    /\ \A i \in DOMAIN lb_picks, j \in DOMAIN lb_picks :
          i # j => lb_picks[i].k # lb_picks[j].k
    /\ lb_clean =>
          /\ \A j \in DOMAIN lb_picks :
                lb_picks[j].pos = ((j - 1) % PoolSize) + 1
          /\ \A j \in DOMAIN lb_picks :
                j + PoolSize - 1 <= Len(lb_picks) =>
                   {lb_picks[i].pos : i \in j..(j + PoolSize - 1)} = Pool

\* more selections than instances were made, the last one by the second
\* thread and back at the first position, one instance being degraded
C27_Witness ==
    /\ lb_clean
    /\ Len(lb_picks) > PoolSize
    /\ \E j \in Pool : lb_status[j] = "degraded"
    /\ ev.type = "select"
    /\ ev.who # 1
    /\ ev.picked = 1

(***************************************************************************)
(* Registry properties (specification RegistrySpec)                        *)
(***************************************************************************)
\* C28: when shutdown has completed, the instance map is empty and no
\* health-probe task started by an earlier create is still running, the
\* probe of an instance replaced under its name included.
C28_ShutdownStopsEveryProbe ==
    (ev.type = "shutdown" /\ ev.completed)
    => (/\ reg_instances = <<>>
        /\ reg_tasks = {})

(***************************************************************************)
(* Language detector properties (specification DetectSpec)                 *)
(***************************************************************************)
\* the languages with the largest score
Top(code) == {lang \in PatternLanguages : Score(code, lang) = MaxScore(code)}

\* the first language of Top in the order Python, JavaScript, TypeScript,
\* Java, Kotlin, Swift, C++, Go, Rust, Ruby
FirstListed(code) ==
    SUPPORTED_LANGUAGES[CHOOSE j \in DOMAIN SUPPORTED_LANGUAGES :
       /\ SUPPORTED_LANGUAGES[j] \in Top(code)
       /\ \A k \in 1..(j - 1) : SUPPORTED_LANGUAGES[k] \notin Top(code)]

\* C29: when the largest score is at least 2 the detector returns a
\* language with the largest score, and among several the one that comes
\* first in the order Python, JavaScript, TypeScript, Java, Kotlin, Swift,
\* C++, Go, Rust, Ruby.
C29_TieBrokenByListedOrder ==
    (det_result # "pending" /\ MaxScore(det_code) >= 2)
    => (/\ det_result \in Top(det_code)
        /\ det_result = FirstListed(det_code))

DefaultSeverity ==
    [c \in ErrorCategory \ {"provider"} |->
       CASE c = "rate_limit" -> "low"
         [] c \in {"authentication", "configuration"} -> "high"
         [] c = "system" -> "critical"
         [] OTHER -> "medium"]

\* C31: a record produced by handle_error without an explicit severity
\* carries the default severity of its category, whether the category was
\* classified or supplied by the caller.
C31_DefaultSeverityOfCategory ==
    (/\ ev.type = "handle_error"
     /\ ~ev.explicit
     /\ err_returned.category \in DOMAIN DefaultSeverity)
    => err_returned.severity = DefaultSeverity[err_returned.category]

(***************************************************************************)
(* Lifecycle properties (specification LifecycleSpec)                      *)
(***************************************************************************)
\* what the shutdown call that just ended ran
RanByCall == SubSeq(lc_ran, ev.mark + 1, Len(lc_ran))

\* C32: a shutdown called in state READY, RUNNING or DEGRADED runs every
\* registered cleanup function exactly once, in reverse order of
\* registration, also past functions that raise, and ends in SHUTDOWN.
C32_ShutdownRunsCleanups ==
    (ev.type = "shutdown_end" /\ ev.from \in {"ready", "running", "degraded"})
    => (/\ lc_state = "shutdown"
        /\ RanByCall = Reverse(Ids(lc_cleanups)))

\* C40: over any sequence of shutdown calls each cleanup function runs at
\* most once, and a shutdown called in state SHUTDOWN changes nothing.
C40_ShutdownIdempotent ==
    /\ \A j, k \in DOMAIN lc_ran : lc_ran[j] = lc_ran[k] => j = k
    /\ (ev.type = "shutdown_begin" /\ ev.from = "shutdown")
          => lc_state = "shutdown"
    /\ (ev.type = "shutdown_end" /\ ev.from = "shutdown")
          => (lc_state = "shutdown" /\ RanByCall = <<>>)

(***************************************************************************)
(* Rate limiter: waiting and conformance (specification RLSpec)            *)
(***************************************************************************)
\* a non-blocking acquire by t can return in this state
ReturnsAtOnce(t) ==
    \E k \in 1..MaxTokensAsked :
       \/ ENABLED AcquireGranted(t, k, FALSE)
       \/ ENABLED AcquireRefused(t, k)

\* C33: a non-blocking acquire returns without waiting for any other
\* caller, also while another thread sleeps inside a blocking acquire.
C33_NonBlockingNeverWaits ==
    \A t \in Acquirers : rl_lock # t => ReturnsAtOnce(t)

\* C34: the tokens granted by the calls that have returned true by time t
\* are at most burst + rate * (t - t0), t0 the time the bucket was created.
C34_TokenBucketConformance ==
    rl_granted * Unit <= rl_burst * Unit + rl_rate * rl_clock

(***************************************************************************)
(* Priority queue under concurrency (specification PQSpec)                 *)
(***************************************************************************)
\* the threads that are at pc
At(pc_) == {t \in PQThreads : pq_pc[t] = pc_}

\* C35: under every interleaving of puts and gets, a get whose wait on the
\* semaphore succeeded returns an item (Empty is raised only by a wait that
\* timed out), and no queued item is without a permit: the items queued are
\* as many as the permits of the semaphore, plus those held by the gets
\* that are scanning, plus those the puts that have stored their item are
\* about to release; so with no call in progress the gets that can still
\* succeed are as many as the items queued.
C35_NoItemLost ==
    /\ (ev.type = "get" /\ ev.waited) => ev.ok
    /\ (ev.type = "get" /\ ~ev.waited) => pq_sem = 0
    /\ Len(pq_queues[1]) + Len(pq_queues[2]) + Len(pq_queues[3])
          + Len(pq_queues[4])
       = pq_sem + Cardinality(At("get_scan")) + Cardinality(At("put_release"))

\* a get that overlapped a put returned an item of lower priority than one
\* that is queued (stored after the scan had passed its priority)
C35_Witness ==
    /\ ev.type = "get" /\ ev.ok /\ ev.waited
    /\ ~pq_serial
    /\ \E p \in RequestPriority :
          /\ p > ev.item.priority
          /\ pq_queues[p] # <<>>
    /\ pq_sem = 1
    /\ \A t \in PQThreads : pq_pc[t] = "idle"

(***************************************************************************)
(* Reordering during an execute (specification ReorderSpec)                *)
(***************************************************************************)
\* the providers the running execute has dispatched to
Dispatched == {j \in DOMAIN x_log : x_log[j].what # "skipped"}

\* C36: also when reorder_by_performance runs while execute is suspended in
\* a provider call, the execute dispatches to each provider of the chain at
\* most once, and it raises all-providers-failed only after it has
\* considered every provider of the chain.
C36_ReorderKeepsIteration ==
    /\ \A j, k \in Dispatched : x_log[j].p = x_log[k].p => j = k
    /\ x_pc = "raised" =>
          \A n \in DOMAIN chain : \E j \in DOMAIN x_log : x_log[j].p = chain[n]

(***************************************************************************)
(* Circuit breaker recovery (specification LiveSpec)                       *)
(***************************************************************************)
\* C37: whatever the positive thresholds, if callers keep calling, time
\* advances and the wrapped function succeeds from some point on, the
\* breaker ends up CLOSED, admitting calls.
C37_BreakerRecovers == <>[](cb.state = "closed")

(***************************************************************************)
(* Acknowledged writes and recovery (specification CfgSpec)                *)
(***************************************************************************)
\* the live file loads and verifies
Intact(f) == Loads(f) /\ _verify_integrity(f)

\* C38: when a write has returned, the live file is then corrupted and a
\* fresh store is opened on the directory, the store holds every value the
\* write left in the record.
C38_AcknowledgedWriteSurvives ==
    [][ (ev'.type = "open" /\ ~ev'.raised /\ cfg_acked.some
         /\ ~Intact(cfg_live)) =>
          \A k \in DOMAIN cfg_acked.data :
             Get(cfg_data', k) = cfg_acked.data[k] ]_vars

(***************************************************************************)
(* Repeated translate calls (specification TranslateSpec)                  *)
(***************************************************************************)
\* this step starts a call with the code and languages of the call that
\* has just finished; a call that suspends is the request added to the
\* suspended ones
RepeatsLast ==
    /\ tr_calls' = tr_calls + 1
    /\ IF ev'.type = "translate"
       THEN ReqKey(ev'.req) = ReqKey(ev.req) /\ ev'.req.code = ev.req.code
       ELSE \E r \in BagToSet(tr_awaiting') :
               /\ CopiesIn(r, tr_awaiting') > CopiesIn(r, tr_awaiting)
               /\ ReqKey(r) = ReqKey(ev.req)
               /\ r.code = ev.req.code

\* C39: when a translate call has returned normally, the same call made
\* next is a cache hit: the same text, confidence 1.0, no provider invoked.
C39_RepeatIsCacheHit ==
    [][ (/\ ev.type = "translate"
         /\ ev.outcome = "returned"
         /\ RepeatsLast)
        => (/\ ev'.type = "translate"
            /\ ev'.hit
            /\ ev'.outcome = "returned"
            /\ ev'.text = ev.text
            /\ ev'.confidence = HitConfidence
            /\ ev'.invoked = <<>>)
      ]_vars

TypeOK ==
    /\ cb.state \in {"closed", "open", "half_open"}
    /\ cb.failure_count \in Nat
    /\ cb.success_count \in 0..success_threshold
    /\ pc \in [Callers -> {"idle", "running"}]
====
